---- MODULE Spec2Model ----
(***************************************************************************)
(* Two-sample t-test engine of cnerg/snippets.                             *)
(*                                                                         *)
(* Three copies of the engine are modelled, told apart by `module`:        *)
(*   "t_test"          src/t_test/t_test.py          (basic)               *)
(*   "twosample_ttest" src/t_test/twosample_ttest.py (extended, pooled)    *)
(*   "source"          src/source/t_test.py          (basic, unvalidated)  *)
(*                                                                         *)
(* Python values are records [t |-> type tag, ...].  A number is a scalar   *)
(* [t, k |-> "num" | "nan" | "inf", v |-> units of 1/SCALE]: decimal fixed *)
(* point, truncated at each operation, so computed values agree with the   *)
(* floats of the code to about four decimal places.  The kind k keeps the  *)
(* IEEE special values apart: a comparison with a NaN is FALSE as it is in *)
(* Python.                                                                 *)
(***************************************************************************)
EXTENDS Integers, Sequences, FiniteSets, TLC

VARIABLES
    fn,         \* the function under call
    module,     \* the copy of the engine that is called
    sample_1,   \* argument: first sample
    sample_2,   \* argument: second sample
    alpha,      \* argument: significance level
    d,          \* argument: discrepancy
    skip,       \* argument: skip flag
    set_1,      \* check_data_matching: first key set
    set_2,      \* check_data_matching: second key set
    pc,         \* position of the call
    key_set,    \* common_set returned by check_data_matching
    stat,       \* result mapping under construction, then returned
    exc,        \* the exception raised, ExcNone while none
    stdout,     \* what was printed, in order
    argv,       \* arguments of the function under call other than the seven above
    ret,        \* value returned by a function other than t_test
    calls,      \* completed invocations, in order: arguments and outcomes
    lines,      \* load_data: the lines of the file, each a sequence of tokens
    heap,       \* the list objects created by load_data, by identity
    rdata,      \* the dict returned by load_data: <<key, identity>> pairs
    pdata       \* the dict returned by process_data: <<key, identity>> pairs

vars == <<fn, module, sample_1, sample_2, alpha, d, skip, set_1, set_2,
          pc, key_set, stat, exc, stdout, argv, ret, calls,
          lines, heap, rdata, pdata>>

\* the variables of the data-loading functions
data == <<lines, heap, rdata, pdata>>

\* no file was loaded
NoData == lines = <<>> /\ heap = <<>> /\ rdata = <<>> /\ pdata = <<>>

args == <<fn, module, sample_1, sample_2, alpha, d, skip>>

(***************************************************************************)
(* Bounds of the model.                                                    *)
(***************************************************************************)
MatchKeys == 3      \* size of the key universe of the check_data_matching calls
ArgKeys == 2        \* size of the key universe of the samples given to check_input_args
NumKeys == 2        \* size of the key universe of the samples given to t_test
MaxCalls == 3       \* number of invocations of t_test made one after the other
MaxLines == 2       \* number of lines of the file given to load_data

Modules == {"t_test", "twosample_ttest", "source"}

(***************************************************************************)
(* Python values.  A scalar is [t |-> type, k |-> kind, v |-> units]:      *)
(* t is the Python type ("exc" for an exception raised while the value was *)
(* computed, k then naming it), k is "num", "nan" or "inf" (v the sign),   *)
(* v the value in units of 1/SCALE.  A list or tuple is [t, e |-> elems],  *)
(* a dict [t, items |-> <<key, value>> pairs in insertion order].          *)
(***************************************************************************)
SCALE == 10^6       \* fixed-point unit: 1.0 is SCALE

Scalar(t, k, v) == [t |-> t, k |-> k, v |-> v]
PyFloat(v) == Scalar("float", "num", v)
NpFloat(v) == Scalar("np.float64", "num", v)
PyInt(n)   == Scalar("int", "num", n * SCALE)
PyStr(v)   == Scalar("str", "num", v)
PyNone     == Scalar("NoneType", "num", 0)
PyBool(b)  == Scalar("bool", "num", IF b THEN SCALE ELSE 0)
Raise(name) == Scalar("exc", name, 0)
PyList(e)  == [t |-> "list", e |-> e]
PyTuple(e) == [t |-> "tuple", e |-> e]
PyDict(items) == [t |-> "dict", items |-> items]

\* bool(x) of a scalar
Truthy(x) == x.v # 0

\* isinstance(x, (float, int)): bool is a subclass of int, np.float64 of float
IsFloatOrInt(x) == x.t \in {"float", "int", "bool", "np.float64"}

\* isinstance(x, float)
IsFloat(x) == x.t \in {"float", "np.float64"}

(***************************************************************************)
(* Fixed-point arithmetic on magnitudes (naturals in units of 1/SCALE).    *)
(* Products and quotients are built limb by limb so that no intermediate   *)
(* result leaves the 32-bit range of the model's integers.                 *)
(***************************************************************************)
Abs(x) == IF x < 0 THEN -x ELSE x

Sgn(x) == IF x < 0 THEN -1 ELSE IF x > 0 THEN 1 ELSE 0

\* floor(a * b / SCALE)
MulU(a, b) ==
    LET ah == a \div 1000  al == a % 1000
        bh == b \div 1000  bl == b % 1000
    IN  ah * bh + (ah * bl + al * bh + (al * bl) \div 1000) \div 1000

\* floor(a * 10^k / b), by long division
RECURSIVE DivDigits(_, _, _)
DivDigits(a, b, k) ==
    IF k = 0 THEN a \div b
    ELSE (a \div b) * 10^k + DivDigits((a % b) * 10, b, k - 1)

\* floor(a * SCALE / b)
DivU(a, b) == DivDigits(a, b, 6)

\* floor(sqrt(n))
RECURSIVE ISqrt(_)
ISqrt(n) ==
    IF n < 2 THEN n
    ELSE LET s == 2 * ISqrt(n \div 4)
         IN IF (s + 1) * (s + 1) <= n THEN s + 1 ELSE s

\* one more decimal digit of a square root: root r, remainder rem
SqrtDigit(s) ==
    LET rem == s.rem * 100
        dg == CHOOSE x \in 0..9 :
                  /\ (20 * s.r + x) * x <= rem
                  /\ (x = 9 \/ (20 * s.r + x + 1) * (x + 1) > rem)
    IN  [r |-> 10 * s.r + dg, rem |-> rem - (20 * s.r + dg) * dg]

\* floor(sqrt(a * SCALE)): the square root of a in units of 1/SCALE
SqrtU(a) ==
    LET r0 == ISqrt(a)
    IN  SqrtDigit(SqrtDigit(SqrtDigit([r |-> r0, rem |-> a - r0 * r0]))).r

(***************************************************************************)
(* Python arithmetic on scalars.  An operand that is an exception makes    *)
(* the result that exception (operands are evaluated left to right); an    *)
(* operand that is no number makes it TypeError.  A result is np.float64   *)
(* when an operand is, else float when an operand is, else int.            *)
(***************************************************************************)
IsExc(x) == x.t = "exc"

Operands(x, y) ==
    IF IsExc(x) THEN x
    ELSE IF IsExc(y) THEN y
    ELSE IF ~IsFloatOrInt(x) \/ ~IsFloatOrInt(y) THEN Raise("TypeError")
    ELSE Scalar("ok", "num", 0)

ResultType(x, y) ==
    IF "np.float64" \in {x.t, y.t} THEN "np.float64"
    ELSE IF "float" \in {x.t, y.t} THEN "float"
    ELSE "int"

NaN(t) == Scalar(t, "nan", 0)

Inf(t, sign) == Scalar(t, "inf", sign)

Neg(x) == Scalar(x.t, x.k, -x.v)

PyAbs(x) == Scalar(x.t, x.k, Abs(x.v))

One == PyInt(1)

Two == PyInt(2)

\* x + y
Add(x, y) ==
    LET t == ResultType(x, y) IN
    IF IsExc(Operands(x, y)) THEN Operands(x, y)
    ELSE IF x.k = "nan" \/ y.k = "nan" THEN NaN(t)
    ELSE IF x.k = "inf" /\ y.k = "inf" THEN (IF x.v = y.v THEN Inf(t, x.v) ELSE NaN(t))
    ELSE IF x.k = "inf" THEN Inf(t, x.v)
    ELSE IF y.k = "inf" THEN Inf(t, y.v)
    ELSE Scalar(t, "num", x.v + y.v)

\* x - y
Sub(x, y) == Add(x, Neg(y))

\* x * y
Mul(x, y) ==
    LET t == ResultType(x, y) IN
    IF IsExc(Operands(x, y)) THEN Operands(x, y)
    ELSE IF x.k = "nan" \/ y.k = "nan" THEN NaN(t)
    ELSE IF x.k = "inf" \/ y.k = "inf"
         THEN (IF x.v = 0 \/ y.v = 0 THEN NaN(t) ELSE Inf(t, Sgn(x.v) * Sgn(y.v)))
    ELSE Scalar(t, "num", Sgn(x.v) * Sgn(y.v) * MulU(Abs(x.v), Abs(y.v)))

\* x ** 2
Pow2(x) == Mul(x, x)

\* x / y: float division by zero raises ZeroDivisionError for Python numbers
\* and gives inf or nan (with a warning) when an operand is a np.float64
TrueDiv(x, y) ==
    LET t == IF ResultType(x, y) = "int" THEN "float" ELSE ResultType(x, y) IN
    IF IsExc(Operands(x, y)) THEN Operands(x, y)
    ELSE IF y.k = "num" /\ y.v = 0
         THEN (IF t # "np.float64" THEN Raise("ZeroDivisionError")
               ELSE IF x.k = "nan" \/ x.v = 0 THEN NaN(t)
               ELSE Inf(t, Sgn(x.v)))
    ELSE IF x.k = "nan" \/ y.k = "nan" THEN NaN(t)
    ELSE IF x.k = "inf"
         THEN (IF y.k = "inf" THEN NaN(t) ELSE Inf(t, x.v * Sgn(y.v)))
    ELSE IF y.k = "inf" THEN Scalar(t, "num", 0)
    ELSE Scalar(t, "num", Sgn(x.v) * Sgn(y.v) * DivU(Abs(x.v), Abs(y.v)))

\* math.sqrt(x)
math_sqrt(x) ==
    IF IsExc(Operands(x, x)) THEN Operands(x, x)
    ELSE IF x.k = "nan" THEN NaN("float")
    ELSE IF x.v < 0 THEN Raise("ValueError")
    ELSE IF x.k = "inf" THEN Inf("float", 1)
    ELSE PyFloat(SqrtU(x.v))

\* np.sqrt(x)
np_sqrt(x) ==
    IF IsExc(Operands(x, x)) THEN Operands(x, x)
    ELSE IF x.k = "nan" \/ x.v < 0 THEN NaN("np.float64")
    ELSE IF x.k = "inf" THEN Inf("np.float64", 1)
    ELSE NpFloat(SqrtU(x.v))

\* round(x, ndigits): to the nearest multiple of 10^-ndigits, ties to even
Round(x, ndigits) ==
    LET u == SCALE \div 10^ndigits
        q == Abs(x.v) \div u
        r == Abs(x.v) % u
        up == 2 * r > u \/ (2 * r = u /\ q % 2 = 1)
    IN  IF IsExc(Operands(x, x)) THEN Operands(x, x)
        ELSE IF x.k # "num" \/ x.t \in {"int", "bool"} THEN x
        ELSE Scalar(x.t, "num", Sgn(x.v) * u * (IF up THEN q + 1 ELSE q))

\* the place of a float on the extended real line; a NaN has none
Place(x) == IF x.k = "inf" THEN x.v * 2147483647 ELSE x.v

\* x > y and x <= y: FALSE when an operand is a NaN
Gt(x, y) == x.k # "nan" /\ y.k # "nan" /\ Place(x) > Place(y)

Le(x, y) == x.k # "nan" /\ y.k # "nan" /\ Place(x) <= Place(y)

(***************************************************************************)
(* Student's t distribution (scipy.stats.t), for an even number of degrees *)
(* of freedom, where the CDF is algebraic: with th = x / sqrt(df + x^2),   *)
(*   cdf(x, df) = 1/2 + th/2 * sum_{j < df/2} c_j * (1 - th^2)^j,          *)
(*   c_0 = 1, c_j = c_(j-1) * (2j - 1) / (2j).                             *)
(* The model's sample sizes make every positive df even.  scipy returns    *)
(* nan when df <= 0 and when the probability is outside [0, 1].            *)
(***************************************************************************)
\* sum of the terms j..n-1 of the series, `term` being term j
RECURSIVE CdfSeries(_, _, _, _)
CdfSeries(u, term, j, n) ==
    IF j >= n THEN 0
    ELSE term + CdfSeries(u, (MulU(term, u) * (2 * j + 1)) \div (2 * j + 2), j + 1, n)

\* cdf(x, df) in units, for a magnitude x >= 0 and an even df > 0 (an integer)
CdfU(x, df) ==
    LET th == DivU(x, SqrtU(df * SCALE + MulU(x, x)))
        sum == CdfSeries(SCALE - MulU(th, th), SCALE, 0, df \div 2)
    IN  (SCALE + MulU(th, sum)) \div 2

EvenDf(df) == df.k = "num" /\ df.v > 0 /\ df.v % (2 * SCALE) = 0

\* stats.t.cdf(x, df)
t_cdf(x, df) ==
    IF df.k # "num" \/ df.v <= 0 \/ x.k = "nan" THEN NaN("np.float64")
    ELSE IF x.k = "inf" THEN NpFloat(IF x.v > 0 THEN SCALE ELSE 0)
    ELSE CASE EvenDf(df) ->
              IF x.v >= 0 THEN NpFloat(CdfU(x.v, df.v \div SCALE))
              ELSE NpFloat(SCALE - CdfU(-x.v, df.v \div SCALE))

\* the largest magnitude the quantile search looks at
PpfMax == 40 * SCALE

\* least x in lo+1..hi with cdf(x, df) >= q, given cdf(lo, df) < q <= cdf(hi, df)
RECURSIVE PpfSearch(_, _, _, _)
PpfSearch(q, df, lo, hi) ==
    IF hi - lo <= 1 THEN hi
    ELSE LET mid == (lo + hi) \div 2
         IN IF CdfU(mid, df) >= q THEN PpfSearch(q, df, lo, mid)
            ELSE PpfSearch(q, df, mid, hi)

\* the quantile in units, for 1/2 <= q < 1 in units and an even df > 0
PpfU(q, df) == IF CdfU(0, df) >= q THEN 0 ELSE PpfSearch(q, df, 0, PpfMax)

\* the quantiles the calls of the model ask for most (1 - 0.05/2 at df 2 and 4),
\* computed once
PpfTable == [q \in {SCALE - SCALE \div 40}, df \in {2, 4} |-> PpfU(q, df)]

\* the quantile in units, looked up when tabulated
Ppf(q, df) == IF <<q, df>> \in DOMAIN PpfTable THEN PpfTable[q, df] ELSE PpfU(q, df)

\* stats.t.ppf(q, df)
t_ppf(q, df) ==
    IF df.k # "num" \/ df.v <= 0 \/ q.k # "num" \/ q.v < 0 \/ q.v > SCALE
    THEN NaN("np.float64")
    ELSE IF q.v = SCALE THEN Inf("np.float64", 1)
    ELSE IF q.v = 0 THEN Inf("np.float64", -1)
    ELSE CASE EvenDf(df) ->
              IF 2 * q.v >= SCALE THEN NpFloat(Ppf(q.v, df.v \div SCALE))
              ELSE NpFloat(-Ppf(SCALE - q.v, df.v \div SCALE))

(***************************************************************************)
(* The per-key statistics.                                                 *)
(***************************************************************************)
NDIGITS == 5

\* mutant: the discrepancy is added instead of subtracted
two_sample_t_adds_d(m1, se1, m2, se2, dd) ==
    TrueDiv(Add(Sub(m1, m2), dd), math_sqrt(Add(Pow2(se1), Pow2(se2))))

\* ((m1-m2)-d) / math.sqrt(se1**2+se2**2)
two_sample_t(m1, se1, m2, se2, dd) ==
    TrueDiv(Sub(Sub(m1, m2), dd), math_sqrt(Add(Pow2(se1), Pow2(se2))))

\* round(sem / m * 100, NDIGITS - 2)
calc_rse(m, sem) == Round(Mul(TrueDiv(sem, m), PyInt(100)), NDIGITS - 2)

\* mutant: the t-value is returned without rounding
calc_twosample_tvalue_unrounded(m1, sd1, n1, m2, sd2, n2, dd) ==
    LET sp == np_sqrt(TrueDiv(Add(Mul(Sub(n1, One), Pow2(sd1)),
                                  Mul(Sub(n2, One), Pow2(sd2))),
                              Sub(Add(n1, n2), Two)))
    IN  TrueDiv(Sub(Sub(m1, m2), dd),
                Mul(sp, np_sqrt(Add(TrueDiv(One, n1), TrueDiv(One, n2)))))

\* pooled standard deviation, then the t-value rounded to NDIGITS
calc_twosample_tvalue(m1, sd1, n1, m2, sd2, n2, dd) ==
    LET sp == np_sqrt(TrueDiv(Add(Mul(Sub(n1, One), Pow2(sd1)),
                                  Mul(Sub(n2, One), Pow2(sd2))),
                              Sub(Add(n1, n2), Two)))
        t_val == TrueDiv(Sub(Sub(m1, m2), dd),
                         Mul(sp, np_sqrt(Add(TrueDiv(One, n1), TrueDiv(One, n2)))))
    IN  Round(t_val, NDIGITS)

\* mutant: the absolute value of t_val is not taken
p_value_signed(t_val, df) == Mul(Sub(One, t_cdf(t_val, df)), Two)

\* (1 - stats.t.cdf(abs(t_val), df)) * 2
p_value(t_val, df) == Mul(Sub(One, t_cdf(PyAbs(t_val), df)), Two)

\* stats.t.ppf(1.0 - alpha/2.0, df)
critical_t(a, df) ==
    LET q == Sub(PyFloat(SCALE), TrueDiv(a, PyFloat(2 * SCALE)))
    IN  IF IsExc(q) THEN q ELSE t_ppf(q, df)

\* the first exception among the values computed, in the order of the code
RECURSIVE FirstExc(_)
FirstExc(seq) ==
    IF seq = <<>> THEN "none"
    ELSE IF IsExc(Head(seq)) THEN Head(seq).k
    ELSE FirstExc(Tail(seq))

\* [m, se, n] = sample[key]
Unpack(val) ==
    IF IsExc(val) THEN val.k
    ELSE IF val.t \notin {"list", "tuple"} THEN "TypeError"
    ELSE IF Len(val.e) # 3 THEN "ValueError"
    ELSE "none"

\* mutant: reject = abs(t_val) > t_crit
reject_basic_greater(t_val, t_crit) == Gt(PyAbs(t_val), t_crit)

\* if abs(t_val) <= t_crit: reject = False else: reject = True
reject_basic(t_val, t_crit) == IF Le(PyAbs(t_val), t_crit) THEN FALSE ELSE TRUE

\* reject = abs(t_val) > t_crit
reject_extended(t_val, t_crit) == Gt(PyAbs(t_val), t_crit)

\* the body of the loop of t_test in t_test.py and source/t_test.py:
\* [exc |-> the exception raised or "none", val |-> the tuple stored]
entry_basic(v1, v2, a, dd) ==
    IF Unpack(v1) # "none" THEN [exc |-> Unpack(v1), val |-> <<>>]
    ELSE IF Unpack(v2) # "none" THEN [exc |-> Unpack(v2), val |-> <<>>]
    ELSE
    LET m1 == v1.e[1]  se1 == v1.e[2]  n1 == v1.e[3]
        m2 == v2.e[1]  se2 == v2.e[2]  n2 == v2.e[3]
        t_val == two_sample_t(m1, se1, m2, se2, dd)
        df == Sub(Add(n1, n2), Two)
        t_crit == critical_t(a, df)
        raised == FirstExc(<<t_val, df, t_crit>>)
    IN  IF raised # "none" THEN [exc |-> raised, val |-> <<>>]
        ELSE [exc |-> "none",
              val |-> <<t_val, df, p_value(t_val, df), t_crit,
                        reject_basic(t_val, t_crit)>>]

\* the body of the loop of t_test in twosample_ttest.py
entry_extended(v1, v2, a, dd) ==
    IF Unpack(v1) # "none" THEN [exc |-> Unpack(v1), val |-> <<>>]
    ELSE IF Unpack(v2) # "none" THEN [exc |-> Unpack(v2), val |-> <<>>]
    ELSE
    LET m1 == v1.e[1]  sem1 == v1.e[2]  n1 == v1.e[3]
        m2 == v2.e[1]  sem2 == v2.e[2]  n2 == v2.e[3]
        rse1 == calc_rse(m1, sem1)
        rse2 == calc_rse(m2, sem2)
        sd1 == Mul(sem1, np_sqrt(n1))
        sd2 == Mul(sem2, np_sqrt(n2))
        t_val == calc_twosample_tvalue(m1, sd1, n1, m2, sd2, n2, dd)
        df == Sub(Add(n1, n2), Two)
        t_crit == Round(critical_t(a, df), NDIGITS)
        raised == FirstExc(<<rse1, rse2, sd1, sd2, t_val, df, t_crit>>)
    IN  IF raised # "none" THEN [exc |-> raised, val |-> <<>>]
        ELSE [exc |-> "none",
              val |-> <<t_val, df, p_value(t_val, df), t_crit,
                        reject_extended(t_val, t_crit), <<rse1, rse2>>>>]

\* mutant: the extended copy stores the entry of the basic copies
entry_always_basic(m, v1, v2, a, dd) == entry_basic(v1, v2, a, dd)

entry(m, v1, v2, a, dd) ==
    IF m = "twosample_ttest" THEN entry_extended(v1, v2, a, dd)
    ELSE entry_basic(v1, v2, a, dd)

(***************************************************************************)
(* Messages and exceptions.  A message is the text the code formats: its   *)
(* fixed wording `text`, the sample name and key it interpolates, and for  *)
(* the mismatch message the parts appended in order.                       *)
(***************************************************************************)
Msg(text, sn, key, parts, skipped, indent) ==
    [text |-> text, sn |-> sn, key |-> key, parts |-> parts,
     skipped |-> skipped, indent |-> indent]

NoMsg == Msg("", "", 0, <<>>, FALSE, 0)

Exc(type, msg) == [type |-> type, msg |-> msg]

ExcNone == Exc("none", NoMsg)

(***************************************************************************)
(* check_data_matching(set_1, set_2, skip)                                 *)
(* Result: [exc, ret (common_set), out (what it printed)].                 *)
(***************************************************************************)
Indent(m) == IF m = "twosample_ttest" THEN 2 ELSE 0

\* " sample_1 missing {set_1 - set_2}." then " sample_2 missing {set_2 - set_1}."
MismatchParts(s1, s2) ==
    (IF s1 \ s2 # {} THEN <<[label |-> "sample_1 missing", keys |-> s1 \ s2]>> ELSE <<>>)
    \o
    (IF s2 \ s1 # {} THEN <<[label |-> "sample_2 missing", keys |-> s2 \ s1]>> ELSE <<>>)

err_str(m, s1, s2, sk) ==
    Msg("Data set mismatching.", "", 0, MismatchParts(s1, s2), sk, Indent(m))

\* mutant: the skip flag is ignored and every mismatch is fatal
check_data_matching_always_raises(m, s1, s2, sk) ==
    IF s1 # s2
    THEN [exc |-> Exc("KeyError", err_str(m, s1, s2, FALSE)), ret |-> {}, out |-> <<>>]
    ELSE [exc |-> ExcNone, ret |-> s1, out |-> <<>>]

\* mutant: common_set is left at set_1 instead of set_1 & set_2
check_data_matching_keeps_set_1(m, s1, s2, sk) ==
    IF s1 # s2
    THEN IF Truthy(sk)
         THEN [exc |-> ExcNone, ret |-> s1, out |-> <<err_str(m, s1, s2, TRUE)>>]
         ELSE [exc |-> Exc("KeyError", err_str(m, s1, s2, FALSE)), ret |-> {},
               out |-> <<>>]
    ELSE [exc |-> ExcNone, ret |-> s1, out |-> <<>>]

\* mutant: the sets are compared in one direction only (set_1 - set_2)
check_data_matching_one_sided(m, s1, s2, sk) ==
    IF s1 \ s2 # {}
    THEN IF Truthy(sk)
         THEN [exc |-> ExcNone, ret |-> s1 \cap s2,
               out |-> <<err_str(m, s1, s2, TRUE)>>]
         ELSE [exc |-> Exc("KeyError", err_str(m, s1, s2, FALSE)), ret |-> {},
               out |-> <<>>]
    ELSE [exc |-> ExcNone, ret |-> s1, out |-> <<>>]

\* mutant: the copy of source/t_test.py raises whatever skip is
check_data_matching_source_strict(m, s1, s2, sk) ==
    IF s1 # s2
    THEN IF Truthy(sk) /\ m # "source"
         THEN [exc |-> ExcNone, ret |-> s1 \cap s2,
               out |-> <<err_str(m, s1, s2, TRUE)>>]
         ELSE [exc |-> Exc("KeyError", err_str(m, s1, s2, FALSE)), ret |-> {},
               out |-> <<>>]
    ELSE [exc |-> ExcNone, ret |-> s1, out |-> <<>>]

\* mutant: the message is printed on the KeyError path too
check_data_matching_prints_on_error(m, s1, s2, sk) ==
    IF s1 # s2
    THEN IF Truthy(sk)
         THEN [exc |-> ExcNone, ret |-> s1 \cap s2,
               out |-> <<err_str(m, s1, s2, TRUE)>>]
         ELSE [exc |-> Exc("KeyError", err_str(m, s1, s2, FALSE)), ret |-> {},
               out |-> <<err_str(m, s1, s2, FALSE)>>]
    ELSE [exc |-> ExcNone, ret |-> s1, out |-> <<>>]

check_data_matching(m, s1, s2, sk) ==
    IF s1 # s2
    THEN IF Truthy(sk)
         THEN [exc |-> ExcNone, ret |-> s1 \cap s2,
               out |-> <<err_str(m, s1, s2, TRUE)>>]
         ELSE [exc |-> Exc("KeyError", err_str(m, s1, s2, FALSE)), ret |-> {},
               out |-> <<>>]
    ELSE [exc |-> ExcNone, ret |-> s1, out |-> <<>>]

(***************************************************************************)
(* check_input_args(sample_1, sample_2, alpha, d, skip)                    *)
(* Result: the exception raised, ExcNone when it returns.                  *)
(***************************************************************************)
TypeError(text, sn, key) == Exc("TypeError", Msg(text, sn, key, <<>>, FALSE, 0))

\* mutant: the length of the list is not checked
check_value_any_length(sn, key, val) ==
    IF val.t # "list"
    THEN TypeError("must be a list with 3 elements", sn, key)
    ELSE IF \E j \in 1..Len(val.e) : ~IsFloatOrInt(val.e[j])
    THEN TypeError("must be a list of floats or ints", sn, key)
    ELSE ExcNone

\* mutant: the types of the elements are not checked
check_value_any_type(sn, key, val) ==
    IF val.t # "list" \/ Len(val.e) # 3
    THEN TypeError("must be a list with 3 elements", sn, key)
    ELSE ExcNone

\* the two checks made on one value of a sample
check_value(sn, key, val) ==
    IF val.t # "list" \/ Len(val.e) # 3
    THEN TypeError("must be a list with 3 elements", sn, key)
    ELSE IF \E j \in 1..Len(val.e) : ~IsFloatOrInt(val.e[j])
    THEN TypeError("must be a list of floats or ints", sn, key)
    ELSE ExcNone

\* for key, val in sample.items(): the first value that fails, from item i on
RECURSIVE check_items(_, _, _)
check_items(sn, items, i) ==
    IF i > Len(items) THEN ExcNone
    ELSE LET e == check_value(sn, items[i][1], items[i][2]) IN
         IF e # ExcNone THEN e ELSE check_items(sn, items, i + 1)

check_sample(sn, sample) ==
    IF sample.t # "dict"
    THEN TypeError("must be a dictionary", sn, 0)
    ELSE check_items(sn, sample.items, 1)

\* mutant: the end points of the range are accepted
check_alpha_closed_range(a) ==
    IF ~IsFloat(a) THEN TypeError("alpha must be a float", "", 0)
    ELSE IF ~(a.k = "num" /\ 0 <= a.v /\ a.v <= SCALE)
    THEN Exc("ValueError", Msg("alpha must be in (0, 1) range", "", 0, <<>>, FALSE, 0))
    ELSE ExcNone

check_alpha(a) ==
    IF ~IsFloat(a) THEN TypeError("alpha must be a float", "", 0)
    ELSE IF ~(a.k = "num" /\ 0 < a.v /\ a.v < SCALE)
    THEN Exc("ValueError", Msg("alpha must be in (0, 1) range", "", 0, <<>>, FALSE, 0))
    ELSE ExcNone

\* mutant: alpha is checked before the samples
check_input_args_alpha_first(s1, s2, a, dd, sk) ==
    LET e1 == check_sample("sample_1", s1)
        e2 == check_sample("sample_2", s2)
        ea == check_alpha(a)
    IN  IF ea # ExcNone THEN ea
        ELSE IF e1 # ExcNone THEN e1
        ELSE IF e2 # ExcNone THEN e2
        ELSE IF ~IsFloatOrInt(dd) THEN TypeError("d must be a float or an int", "", 0)
        ELSE IF sk.t # "bool" THEN TypeError("skip must be a boolean", "", 0)
        ELSE ExcNone

check_input_args(s1, s2, a, dd, sk) ==
    LET e1 == check_sample("sample_1", s1)
        e2 == check_sample("sample_2", s2)
        ea == check_alpha(a)
    IN  IF e1 # ExcNone THEN e1
        ELSE IF e2 # ExcNone THEN e2
        ELSE IF ea # ExcNone THEN ea
        ELSE IF ~IsFloatOrInt(dd) THEN TypeError("d must be a float or an int", "", 0)
        ELSE IF sk.t # "bool" THEN TypeError("skip must be a boolean", "", 0)
        ELSE ExcNone

(***************************************************************************)
(* Inputs.  Decimal literals are written in hundredths.                    *)
(***************************************************************************)
Dec(hundredths) == hundredths * (SCALE \div 100)

\* a dict literal {k: f[k] for k in K}, inserted in ascending key order
RECURSIVE ItemsOf(_, _)
ItemsOf(f, K) ==
    IF K = {} THEN <<>>
    ELSE LET k == CHOOSE x \in K : \A y \in K : x <= y
         IN <<<<k, f[k]>>>> \o ItemsOf(f, K \ {k})

DictsOver(Keys, Values) ==
    UNION { { PyDict(ItemsOf(f, K)) : f \in [K -> Values] } : K \in SUBSET Keys }

\* [mean, standard error of the mean, sample size]
Triple(m, se, n) == PyList(<<PyFloat(Dec(m)), PyFloat(Dec(se)), PyInt(n)>>)

\* values as in TestCheckInputArgs: a well-formed list, the same as a tuple,
\* a list of 2 elements, a list with a str element
ArgValues ==
    { Triple(100, 4, 3),
      PyTuple(<<PyFloat(Dec(100)), PyFloat(Dec(4)), PyInt(3)>>),
      PyList(<<PyFloat(Dec(100)), PyFloat(Dec(200))>>),
      PyList(<<PyInt(1), PyStr(2), PyInt(3)>>) }

NotADict == PyList(<<PyInt(1), PyInt(2), PyInt(3)>>)

ArgSamples == DictsOver(1..ArgKeys, ArgValues) \cup {NotADict}

\* 0.05, the end points 0.0 and 1.0, 5.0, and the int 1
ArgAlphas == { PyFloat(Dec(5)), PyFloat(0), PyFloat(Dec(100)), PyFloat(Dec(500)),
               PyInt(1) }

\* 0, -0.2 and the list [0.0]
ArgDs == { PyInt(0), PyFloat(Dec(-20)), Scalar("list", "num", 0) }

\* True, False and the str "True"
ArgSkips == { PyBool(TRUE), PyBool(FALSE), PyStr(1) }

(***************************************************************************)
(* Calls of check_input_args.                                              *)
(***************************************************************************)
InitArgs ==
    /\ fn = "check_input_args"
    /\ module \in {"t_test", "twosample_ttest"}
    /\ sample_1 \in ArgSamples
    /\ sample_2 \in ArgSamples
    /\ alpha \in ArgAlphas
    /\ d \in ArgDs
    /\ skip \in ArgSkips
    /\ set_1 = {}
    /\ set_2 = {}
    /\ pc = "call"
    /\ key_set = {}
    /\ stat = <<>>
    /\ exc = ExcNone
    /\ stdout = <<>>
    /\ argv = <<>>
    /\ ret = PyNone
    /\ calls = <<>>
    /\ NoData

call_check_input_args ==
    /\ fn = "check_input_args"
    /\ pc = "call"
    /\ exc' = check_input_args(sample_1, sample_2, alpha, d, skip)
    /\ pc' = IF exc' = ExcNone THEN "returned" ELSE "raised"
    /\ UNCHANGED <<data, argv, ret, calls, fn, module, sample_1, sample_2, alpha, d, skip, set_1, set_2,
                   key_set, stat, stdout>>

NextArgs == call_check_input_args

SpecArgs == InitArgs /\ [][NextArgs]_vars

(***************************************************************************)
(* The requirements on the arguments, as the claims word them.             *)
(***************************************************************************)
ArgsCalled == fn = "check_input_args" /\ pc # "call"

Raised(type) == pc = "raised" /\ exc.type = type

\* a value that is not a 3-element list
BadShape(val) == val.t # "list" \/ Len(val.e) # 3

\* a 3-element list with an element that is neither a float nor an int
BadElement(val) == ~BadShape(val) /\ \E j \in 1..3 : ~IsFloatOrInt(val.e[j])

Malformed(val) == BadShape(val) \/ BadElement(val)

\* an ordered sequence (list or tuple) of exactly 3 floats or ints
NumericSequence3(val) ==
    /\ val.t \in {"list", "tuple"}
    /\ Len(val.e) = 3
    /\ \A j \in 1..3 : IsFloatOrInt(val.e[j])

IsDict(sample) == sample.t = "dict"

HasMalformed(sample) ==
    IsDict(sample) /\ \E i \in 1..Len(sample.items) : Malformed(sample.items[i][2])

SampleOk(sample) == IsDict(sample) /\ ~HasMalformed(sample)

InOpenUnitInterval(a) == a.k = "num" /\ 0 < a.v /\ a.v < SCALE

SampleNamed(sn) == IF sn = "sample_1" THEN sample_1 ELSE sample_2

\* the message of the exception is about a value, and names a sample and a
\* key of it whose value is malformed in the way the message says
NamesOffendingValue ==
    /\ exc.msg.sn \in {"sample_1", "sample_2"}
    /\ IsDict(SampleNamed(exc.msg.sn))
    /\ \E i \in 1..Len(SampleNamed(exc.msg.sn).items) :
          LET item == SampleNamed(exc.msg.sn).items[i] IN
          /\ item[1] = exc.msg.key
          /\ exc.msg.text = "must be a list with 3 elements" => BadShape(item[2])
          /\ exc.msg.text = "must be a list of floats or ints" => BadElement(item[2])

ValueMessage ==
    exc.msg.text \in {"must be a list with 3 elements", "must be a list of floats or ints"}

\* a float alpha outside (0, 1) met after two well-formed samples
RangeErrorFirst == SampleOk(sample_1) /\ SampleOk(sample_2) /\ IsFloat(alpha)
                   /\ ~InOpenUnitInterval(alpha)

(***************************************************************************)
(* C5 as stated: check_input_args raises TypeError when a sample is not a  *)
(* dict, when any value of a sample is not a 3-element list, when any      *)
(* element of a value is not a float or int, when alpha is not a float,    *)
(* when d is not a float or int, or when skip is not a bool; for a         *)
(* malformed value the message names the offending sample and key.         *)
(***************************************************************************)
C5_Original ==
    ArgsCalled =>
        /\ ( \/ ~IsDict(sample_1) \/ ~IsDict(sample_2)
             \/ HasMalformed(sample_1) \/ HasMalformed(sample_2)
             \/ ~IsFloat(alpha)
             \/ ~IsFloatOrInt(d)
             \/ skip.t # "bool" ) => Raised("TypeError")
        /\ (pc = "raised" /\ ValueMessage) => NamesOffendingValue

(***************************************************************************)
(* C5 amended: check_input_args raises TypeError when a sample is not a    *)
(* dict, when any value of a sample is not a 3-element list, when any      *)
(* element of a value is not a float or int, or when alpha is not a float; *)
(* it also raises TypeError when d is not a float or int or skip is not a  *)
(* bool, unless both samples are well-formed and alpha is a float outside  *)
(* (0, 1), in which case the ValueError of the range check is raised       *)
(* first.  For a malformed value the message names the offending sample    *)
(* and key.                                                                *)
(***************************************************************************)
C5_TypeErrors ==
    ArgsCalled =>
        /\ ( \/ ~IsDict(sample_1) \/ ~IsDict(sample_2)
             \/ HasMalformed(sample_1) \/ HasMalformed(sample_2)
             \/ ~IsFloat(alpha) ) => Raised("TypeError")
        /\ ((~IsFloatOrInt(d) \/ skip.t # "bool") /\ ~RangeErrorFirst)
               => Raised("TypeError")
        /\ ((~IsFloatOrInt(d) \/ skip.t # "bool") /\ RangeErrorFirst)
               => Raised("ValueError")
        /\ (pc = "raised" /\ ValueMessage) => NamesOffendingValue

C5_Witness ==
    /\ ArgsCalled /\ Raised("TypeError")
    /\ SampleOk(sample_1) /\ HasMalformed(sample_2)
    /\ exc.msg.sn = "sample_2" /\ exc.msg.key = 2
    /\ exc.msg.text = "must be a list of floats or ints"

(***************************************************************************)
(* C6 as stated: check_input_args returns without error exactly when both  *)
(* samples are mappings, every sample value is an ordered sequence of      *)
(* exactly 3 elements each of which is a float or an integer, alpha is a   *)
(* float strictly between 0 and 1, d is a float or an int, and skip is a   *)
(* boolean; it has no side effect on its arguments.                        *)
(***************************************************************************)
C6_OriginalState ==
    ArgsCalled =>
        ( pc = "returned" <=>
            /\ IsDict(sample_1) /\ IsDict(sample_2)
            /\ \A i \in 1..Len(sample_1.items) : NumericSequence3(sample_1.items[i][2])
            /\ \A i \in 1..Len(sample_2.items) : NumericSequence3(sample_2.items[i][2])
            /\ IsFloat(alpha) /\ InOpenUnitInterval(alpha)
            /\ IsFloatOrInt(d)
            /\ skip.t = "bool" )

C6_Original == []C6_OriginalState /\ [][call_check_input_args => UNCHANGED args]_vars

(***************************************************************************)
(* C6 amended: check_input_args returns without error exactly when both    *)
(* samples are dicts, every sample value is a list (not any other ordered  *)
(* sequence, such as a tuple) of exactly 3 elements each of which is a     *)
(* float or an int, alpha is a float strictly between 0 and 1, d is a      *)
(* float or an int, and skip is a bool; it leaves its arguments unchanged. *)
(***************************************************************************)
C6_ReturnsState ==
    ArgsCalled =>
        ( pc = "returned" <=>
            /\ SampleOk(sample_1) /\ SampleOk(sample_2)
            /\ IsFloat(alpha) /\ InOpenUnitInterval(alpha)
            /\ IsFloatOrInt(d)
            /\ skip.t = "bool" )

C6_ReturnsExactlyWhenValid ==
    []C6_ReturnsState /\ [][call_check_input_args => UNCHANGED args]_vars

C6_Witness ==
    /\ ArgsCalled /\ pc = "returned" /\ exc = ExcNone
    /\ Len(sample_1.items) = 2 /\ Len(sample_2.items) = 1

(***************************************************************************)
(* C7 as stated: check_input_args raises ValueError whenever alpha lies    *)
(* outside the open interval (0, 1), including the end points 0 and 1,     *)
(* and accepts alpha only when it is a float strictly between 0 and 1.     *)
(***************************************************************************)
C7_Original ==
    ArgsCalled =>
        /\ ~InOpenUnitInterval(alpha) => Raised("ValueError")
        /\ pc = "returned" => (IsFloat(alpha) /\ InOpenUnitInterval(alpha))

(***************************************************************************)
(* C7 amended: check_input_args raises ValueError whenever both samples    *)
(* are well-formed and alpha is a float outside the open interval (0, 1),  *)
(* including the end points 0.0 and 1.0 (a malformed sample or an alpha    *)
(* that is not a float, such as the int 0 or 1, raises TypeError instead), *)
(* and it raises ValueError in no other case; it accepts alpha only when   *)
(* it is a float strictly between 0 and 1.                                 *)
(***************************************************************************)
C7_AlphaRange ==
    ArgsCalled =>
        /\ Raised("ValueError") <=> RangeErrorFirst
        /\ (~InOpenUnitInterval(alpha) /\ ~RangeErrorFirst) => Raised("TypeError")
        /\ pc = "returned" => (IsFloat(alpha) /\ InOpenUnitInterval(alpha))

C7_Witness ==
    /\ ArgsCalled /\ Raised("ValueError")
    /\ alpha = PyFloat(SCALE) /\ Len(sample_1.items) > 0

(***************************************************************************)
(* Calls of check_data_matching on arbitrary key sets.                     *)
(***************************************************************************)
MatchKeySet == 1..MatchKeys

NoSample == PyDict(<<>>)

InitMatch ==
    /\ fn = "check_data_matching"
    /\ module \in Modules
    /\ set_1 \in SUBSET MatchKeySet
    /\ set_2 \in SUBSET MatchKeySet
    /\ skip \in {PyBool(TRUE), PyBool(FALSE)}
    /\ sample_1 = NoSample
    /\ sample_2 = NoSample
    /\ alpha = PyFloat(0)
    /\ d = PyInt(0)
    /\ pc = "call"
    /\ key_set = {}
    /\ stat = <<>>
    /\ exc = ExcNone
    /\ stdout = <<>>
    /\ argv = <<>>
    /\ ret = PyNone
    /\ calls = <<>>
    /\ NoData

call_check_data_matching ==
    /\ fn = "check_data_matching"
    /\ pc = "call"
    /\ LET r == check_data_matching(module, set_1, set_2, skip) IN
        /\ exc' = r.exc
        /\ key_set' = r.ret
        /\ stdout' = stdout \o r.out
        /\ pc' = IF r.exc = ExcNone THEN "returned" ELSE "raised"
    /\ UNCHANGED <<data, argv, ret, calls, fn, module, sample_1, sample_2, alpha, d, skip, set_1, set_2, stat>>

NextMatch == call_check_data_matching

SpecMatch == InitMatch /\ [][NextMatch]_vars

MatchCalled == fn = "check_data_matching" /\ pc # "call"

RaisedKeyError == pc = "raised" /\ exc.type = "KeyError"

\* the mismatch message of the call: the KeyError's, or the notice printed
MismatchMsg == IF pc = "raised" THEN exc.msg ELSE stdout[Len(stdout)]

HasMismatchMsg == RaisedKeyError \/ (pc = "returned" /\ Len(stdout) > 0)

\* the message has a part with this label and these keys
Reports(msg, label, keys) ==
    \E i \in 1..Len(msg.parts) : msg.parts[i].label = label /\ msg.parts[i].keys = keys

HasLabel(msg, label) ==
    \E i \in 1..Len(msg.parts) : msg.parts[i].label = label

(***************************************************************************)
(* C1: check_data_matching raises KeyError if and only if set_1 # set_2    *)
(* and skip is False; for equal sets it never raises, whatever skip is.    *)
(***************************************************************************)
C1_KeyErrorIffMismatchNoSkip ==
    MatchCalled =>
        /\ RaisedKeyError <=> (set_1 # set_2 /\ skip = PyBool(FALSE))
        /\ pc = "raised" => RaisedKeyError
        /\ set_1 = set_2 => pc = "returned"

C1_Witness ==
    /\ MatchCalled /\ RaisedKeyError
    /\ set_1 # set_2 /\ set_1 \cap set_2 # {} /\ skip = PyBool(FALSE)

(***************************************************************************)
(* C2: with skip True, check_data_matching returns exactly set_1 & set_2   *)
(* (the set itself when the two are equal, the empty set when they share   *)
(* no key) and never raises.                                               *)
(***************************************************************************)
C2_SkipReturnsIntersection ==
    (MatchCalled /\ skip = PyBool(TRUE)) =>
        /\ pc = "returned"
        /\ exc = ExcNone
        /\ key_set = set_1 \cap set_2
        /\ set_1 = set_2 => key_set = set_1
        /\ (\A k \in set_1 : k \notin set_2) => key_set = {}

C2_Witness ==
    /\ MatchCalled /\ skip = PyBool(TRUE) /\ pc = "returned"
    /\ set_1 = {1, 2, 3} /\ set_2 = {1, 2} /\ key_set = {1, 2}

Disjoint(s1, s2) == s1 \cap s2 = {}

(***************************************************************************)
(* C3 as stated: for every pair of disjoint key sets, check_data_matching  *)
(* returns the empty set when skip is True and fails with KeyError when    *)
(* skip is False.                                                          *)
(***************************************************************************)
C3_Original ==
    (MatchCalled /\ Disjoint(set_1, set_2)) =>
        /\ skip = PyBool(TRUE) => (pc = "returned" /\ key_set = {})
        /\ skip = PyBool(FALSE) => RaisedKeyError

(***************************************************************************)
(* C3 amended: for every pair of disjoint key sets that are not both       *)
(* empty, check_data_matching returns the empty set when skip is True and  *)
(* fails with KeyError when skip is False; two empty sets are equal, and   *)
(* the empty set is returned whatever skip is.                             *)
(***************************************************************************)
C3_DisjointNonEmpty ==
    (MatchCalled /\ Disjoint(set_1, set_2)) =>
        /\ skip = PyBool(TRUE) => (pc = "returned" /\ key_set = {})
        /\ (skip = PyBool(FALSE) /\ (set_1 # {} \/ set_2 # {})) => RaisedKeyError
        /\ (set_1 = {} /\ set_2 = {}) => (pc = "returned" /\ key_set = {})

C3_Witness ==
    /\ MatchCalled /\ Disjoint(set_1, set_2) /\ set_1 # {} /\ set_2 # {}
    /\ skip = PyBool(FALSE) /\ RaisedKeyError

(***************************************************************************)
(* C4: when the key sets differ, the mismatch message reports the keys     *)
(* present in sample 1 but absent from sample 2 as missing from sample 2,  *)
(* and the keys present in sample 2 but absent from sample 1 as missing    *)
(* from sample 1; each direction appears in the message exactly when its   *)
(* key difference is non-empty.                                            *)
(***************************************************************************)
C4_MessageNamesMissingSide ==
    (MatchCalled /\ set_1 # set_2) =>
        /\ HasMismatchMsg
        /\ HasLabel(MismatchMsg, "sample_2 missing") <=> (set_1 \ set_2 # {})
        /\ HasLabel(MismatchMsg, "sample_1 missing") <=> (set_2 \ set_1 # {})
        /\ set_1 \ set_2 # {} => Reports(MismatchMsg, "sample_2 missing", set_1 \ set_2)
        /\ set_2 \ set_1 # {} => Reports(MismatchMsg, "sample_1 missing", set_2 \ set_1)

(***************************************************************************)
(* t_test(sample_1, sample_2, alpha, d, skip), one action per step.        *)
(***************************************************************************)
\* set(sample)
KeysOf(sample) == { sample.items[i][1] : i \in 1..Len(sample.items) }

\* sample[key]
Lookup(sample, key) ==
    IF key \in KeysOf(sample)
    THEN sample.items[CHOOSE i \in 1..Len(sample.items) : sample.items[i][1] = key][2]
    ELSE Raise("KeyError")

\* [1.0, 0.04, 3], [1.2, 0.05, 1] and [1, "2", 3]
TestValues ==
    { Triple(100, 4, 3), Triple(120, 5, 1), PyList(<<PyInt(1), PyStr(2), PyInt(3)>>) }

TestSamples == DictsOver(1..NumKeys, TestValues)

\* 0.05 and 5.0
TestAlphas == { PyFloat(Dec(5)), PyFloat(Dec(500)) }

\* 0 and -0.2
TestDs == { PyInt(0), PyFloat(Dec(-20)) }

Init ==
    /\ fn = "t_test"
    /\ module \in Modules
    /\ sample_1 \in TestSamples
    /\ sample_2 \in TestSamples
    /\ alpha \in TestAlphas
    /\ d \in TestDs
    /\ skip \in {PyBool(TRUE), PyBool(FALSE)}
    /\ set_1 = {}
    /\ set_2 = {}
    /\ pc = "call"
    /\ key_set = {}
    /\ stat = <<>>
    /\ exc = ExcNone
    /\ stdout = <<>>
    /\ argv = <<>>
    /\ ret = PyNone
    /\ calls = <<>>
    /\ NoData

Banner == Msg("- Running two-sample t-test.", "", 0, <<>>, FALSE, 0)

\* mutant: the arguments are not checked
t_test_skips_check_input_args ==
    /\ fn = "t_test"
    /\ pc = "call"
    /\ module # "source"
    /\ pc' = "checked"
    /\ stdout' = IF module = "twosample_ttest" THEN Append(stdout, Banner) ELSE stdout
    /\ UNCHANGED <<data, argv, ret, calls, fn, module, sample_1, sample_2, alpha, d, skip,
                   set_1, set_2, key_set, stat, exc>>

\* t_test.py and twosample_ttest.py: check_input_args(sample_1, ..., skip),
\* in twosample_ttest.py after the banner is printed
t_test_check_input_args ==
    /\ fn = "t_test"
    /\ pc = "call"
    /\ module # "source"
    /\ exc' = check_input_args(sample_1, sample_2, alpha, d, skip)
    /\ pc' = IF exc' = ExcNone THEN "checked" ELSE "raised"
    /\ stdout' = IF module = "twosample_ttest" THEN Append(stdout, Banner) ELSE stdout
    /\ UNCHANGED <<data, argv, ret, calls, fn, module, sample_1, sample_2, alpha, d, skip, set_1, set_2,
                   key_set, stat>>

\* mutant: the common keys are computed in place (set_1 &= set_2)
t_test_check_data_matching_in_place ==
    /\ fn = "t_test"
    /\ \/ pc = "checked"
       \/ pc = "call" /\ module = "source"
    /\ set_1' = KeysOf(sample_1) \cap KeysOf(sample_2)
    /\ set_2' = KeysOf(sample_2)
    /\ LET r == check_data_matching(module, KeysOf(sample_1), set_2', skip) IN
        /\ exc' = r.exc
        /\ key_set' = r.ret
        /\ stdout' = stdout \o r.out
        /\ pc' = IF r.exc = ExcNone THEN "loop" ELSE "raised"
    /\ UNCHANGED <<data, argv, ret, calls, fn, module, sample_1, sample_2, alpha, d, skip, stat>>

\* key_set = check_data_matching(set(sample_1), set(sample_2), skip); stat = {}
\* (the first statement of t_test in source/t_test.py)
t_test_check_data_matching ==
    /\ fn = "t_test"
    /\ \/ pc = "checked"
       \/ pc = "call" /\ module = "source"
    /\ set_1' = KeysOf(sample_1)
    /\ set_2' = KeysOf(sample_2)
    /\ LET r == check_data_matching(module, set_1', set_2', skip) IN
        /\ exc' = r.exc
        /\ key_set' = r.ret
        /\ stdout' = stdout \o r.out
        /\ pc' = IF r.exc = ExcNone THEN "loop" ELSE "raised"
    /\ UNCHANGED <<data, argv, ret, calls, fn, module, sample_1, sample_2, alpha, d, skip, stat>>

\* mutant: every iteration unpacks the triples of the smallest key
t_test_loop_stale_key ==
    /\ fn = "t_test"
    /\ pc = "loop"
    /\ \E key \in key_set \ DOMAIN stat :
        LET k0 == CHOOSE x \in key_set : \A y \in key_set : x <= y
            e == entry(module, Lookup(sample_1, k0), Lookup(sample_2, k0), alpha, d)
        IN  IF e.exc = "none"
            THEN /\ stat' = stat @@ (key :> e.val)
                 /\ UNCHANGED <<pc, exc>>
            ELSE /\ exc' = Exc(e.exc, NoMsg)
                 /\ pc' = "raised"
                 /\ UNCHANGED stat
    /\ UNCHANGED <<data, argv, ret, calls, fn, module, sample_1, sample_2, alpha, d, skip, set_1, set_2,
                   key_set, stdout>>

\* one iteration of `for key in key_set`
t_test_loop ==
    /\ fn = "t_test"
    /\ pc = "loop"
    /\ \E key \in key_set \ DOMAIN stat :
        LET e == entry(module, Lookup(sample_1, key), Lookup(sample_2, key), alpha, d)
        IN  IF e.exc = "none"
            THEN /\ stat' = stat @@ (key :> e.val)
                 /\ UNCHANGED <<pc, exc>>
            ELSE /\ exc' = Exc(e.exc, NoMsg)
                 /\ pc' = "raised"
                 /\ UNCHANGED stat
    /\ UNCHANGED <<data, argv, ret, calls, fn, module, sample_1, sample_2, alpha, d, skip, set_1, set_2,
                   key_set, stdout>>

\* print_rej_summary(stat, alpha, d) of source/t_test.py
Summary(st) ==
    Msg("t-test: out of cases reject null hypothesis", "", 0,
        <<[label |-> "Rejected cases:", keys |-> {k \in DOMAIN st : st[k][5]}],
          [label |-> "cases", keys |-> DOMAIN st]>>, FALSE, 0)

\* mutant: `return stat` is inside the loop
t_test_return_in_loop ==
    /\ fn = "t_test"
    /\ pc = "loop"
    /\ pc' = "returned"
    /\ stdout' = IF module = "source" THEN Append(stdout, Summary(stat)) ELSE stdout
    /\ UNCHANGED <<data, argv, ret, calls, fn, module, sample_1, sample_2, alpha, d, skip, set_1, set_2,
                   key_set, stat, exc>>

\* the loop is exhausted: source/t_test.py prints the summary; return stat
t_test_return ==
    /\ fn = "t_test"
    /\ pc = "loop"
    /\ key_set \subseteq DOMAIN stat
    /\ pc' = "returned"
    /\ stdout' = IF module = "source" THEN Append(stdout, Summary(stat)) ELSE stdout
    /\ UNCHANGED <<data, argv, ret, calls, fn, module, sample_1, sample_2, alpha, d, skip, set_1, set_2,
                   key_set, stat, exc>>

Next ==
    \/ t_test_check_input_args
    \/ t_test_check_data_matching
    \/ t_test_loop
    \/ t_test_return

Spec == Init /\ [][Next]_vars

TTestCalled == fn = "t_test" /\ pc # "call"

Returned == fn = "t_test" /\ pc = "returned"

\* a value of the sample has an element that is neither a float nor an int
HasNonNumeric(sample) ==
    \E i \in 1..Len(sample.items) :
        \E j \in 1..Len(sample.items[i][2].e) : ~IsFloatOrInt(sample.items[i][2].e[j])

(***************************************************************************)
(* C8: every t_test entry point (t_test.py, twosample_ttest.py and         *)
(* source/t_test.py) enforces the alpha range check and the numeric-type   *)
(* check of the sample values before it computes any per-key result: with  *)
(* alpha outside (0, 1) or a non-numeric sample element, no per-key result *)
(* is computed and no result mapping is returned.                          *)
(***************************************************************************)
C8_EntryPointsValidate ==
    (fn = "t_test" /\ ( \/ ~InOpenUnitInterval(alpha)
                        \/ HasNonNumeric(sample_1)
                        \/ HasNonNumeric(sample_2) ))
        => (pc # "returned" /\ stat = <<>>)

(***************************************************************************)
(* C9: whenever t_test returns, the key set of the result mapping is a     *)
(* subset of the intersection of the key sets of sample_1 and sample_2; it *)
(* equals that intersection, and with skip False it equals the key set of  *)
(* each sample.                                                            *)
(***************************************************************************)
C9_ResultKeysAreCommonKeys ==
    Returned =>
        /\ DOMAIN stat \subseteq KeysOf(sample_1) \cap KeysOf(sample_2)
        /\ DOMAIN stat = KeysOf(sample_1) \cap KeysOf(sample_2)
        /\ ~Truthy(skip) => (DOMAIN stat = KeysOf(sample_1) /\ DOMAIN stat = KeysOf(sample_2))

C9_Witness ==
    /\ Returned /\ Truthy(skip)
    /\ KeysOf(sample_1) = {1, 2} /\ KeysOf(sample_2) = {2}
    /\ DOMAIN stat = {2}

(***************************************************************************)
(* C10: for every key of the mapping returned by t_test (basic and         *)
(* extended variants), the stored reject flag equals                       *)
(* (abs(t_value) > critical_t) evaluated on the t_value and critical_t     *)
(* stored in the same entry, also when the critical value is undefined.    *)
(***************************************************************************)
C10_RejectIsAbsTAboveCritical ==
    Returned =>
        \A key \in DOMAIN stat :
            stat[key][5] = Gt(PyAbs(stat[key][1]), stat[key][4])

\* the arguments pass check_input_args
PassesValidation ==
    /\ SampleOk(sample_1) /\ SampleOk(sample_2)
    /\ IsFloat(alpha) /\ InOpenUnitInterval(alpha)
    /\ IsFloatOrInt(d)
    /\ skip.t = "bool"

\* the fields of a result entry
TValue(e) == e[1]
Df(e) == e[2]
PValue(e) == e[3]
CriticalT(e) == e[4]
Reject(e) == e[5]

(***************************************************************************)
(* C11: for every key of a returned result, reject is True exactly when    *)
(* p_value <= alpha (the test plot_p_2d and plot_p_hist apply), so that    *)
(* the keys print_rej_summary counts as rejected are the points the plots  *)
(* treat as rejected.                                                      *)
(***************************************************************************)
C11_RejectIffPAtMostAlpha ==
    Returned =>
        \A key \in DOMAIN stat :
            Reject(stat[key]) = Le(PValue(stat[key]), alpha)

(***************************************************************************)
(* C12: t_test applied with d = 0 to two identical samples that pass       *)
(* validation yields t_value == 0 and reject == False for every key.       *)
(***************************************************************************)
C12_IdenticalSamplesNotRejected ==
    (Returned /\ PassesValidation /\ sample_1 = sample_2 /\ d.k = "num" /\ d.v = 0) =>
        \A key \in DOMAIN stat :
            /\ TValue(stat[key]).k = "num" /\ TValue(stat[key]).v = 0
            /\ Reject(stat[key]) = FALSE

InUnitInterval(x) == x.k = "num" /\ 0 <= x.v /\ x.v <= SCALE

(***************************************************************************)
(* C13 as stated: for every key of a result returned by t_test on inputs   *)
(* that pass validation, p_value lies in the closed interval [0, 1].       *)
(***************************************************************************)
C13_Original ==
    (Returned /\ PassesValidation) =>
        \A key \in DOMAIN stat : InUnitInterval(PValue(stat[key]))

(***************************************************************************)
(* C13 amended: for every key of a result returned by t_test whose degrees *)
(* of freedom n1 + n2 - 2 are positive and whose t_value is not nan,       *)
(* p_value lies in the closed interval [0, 1]; when the degrees of freedom *)
(* are <= 0 the p_value is nan.                                            *)
(***************************************************************************)
C13_PValueInUnitInterval ==
    Returned =>
        \A key \in DOMAIN stat :
            LET e == stat[key] IN
            /\ (Df(e).k = "num" /\ Df(e).v > 0 /\ TValue(e).k # "nan")
                   => InUnitInterval(PValue(e))
            /\ (Df(e).k = "num" /\ Df(e).v <= 0) => PValue(e).k = "nan"

C13_Witness ==
    /\ Returned /\ PassesValidation
    /\ \E key \in DOMAIN stat :
          /\ Df(stat[key]).v > 0 /\ TValue(stat[key]).v < 0
          /\ 0 < PValue(stat[key]).v /\ PValue(stat[key]).v < SCALE
    /\ \E key \in DOMAIN stat : Df(stat[key]).v = 0 /\ PValue(stat[key]).k = "nan"

Reconciled ==
    fn = "t_test" /\ (pc \in {"loop", "returned"} \/ (pc = "raised" /\ exc.type = "KeyError"))

\* every component of every entry is a number or a bool created by the call
\* (immutable), the list of the extended entry holding two such numbers
EntriesAreFresh ==
    \A key \in DOMAIN stat :
        /\ \A i \in 1..4 : stat[key][i].t \in {"float", "int", "np.float64"}
        /\ Reject(stat[key]) \in BOOLEAN
        /\ Len(stat[key]) > 5 =>
               \A i \in 1..Len(stat[key][6]) :
                   stat[key][6][i].t \in {"float", "int", "np.float64"}

C16_FrameState ==
    /\ Reconciled => (set_1 = KeysOf(sample_1) /\ set_2 = KeysOf(sample_2))
    /\ fn = "t_test" => EntriesAreFresh

(***************************************************************************)
(* C16: t_test, with the calls of check_input_args and check_data_matching *)
(* it makes, leaves sample_1, sample_2 and the two key sets unchanged on   *)
(* every path, successful or failing; the result mapping is built from     *)
(* values created by the call and shares no mutable value with the samples.*)
(***************************************************************************)
C16_SamplesAndKeySetsUnchanged ==
    /\ []C16_FrameState
    /\ [][ /\ UNCHANGED <<sample_1, sample_2>>
           /\ Reconciled => UNCHANGED <<set_1, set_2>> ]_vars

C16_Witness ==
    /\ Returned /\ Truthy(skip)
    /\ set_1 = {1, 2} /\ set_2 = {1}
    /\ DOMAIN stat = {1}
    /\ Len(stdout) > 0

\* the key sets of the samples differ
Mismatch == KeysOf(sample_1) # KeysOf(sample_2)

NoMismatchNotice == \A i \in 1..Len(stdout) : stdout[i].text # "Data set mismatching."

(***************************************************************************)
(* C17: in t_test of t_test.py and twosample_ttest.py validation completes *)
(* before key reconciliation and reconciliation before any per-key         *)
(* computation: with a structural or range violation, or with mismatching  *)
(* keys and skip False, t_test raises and returns no mapping, not even a   *)
(* partial one, and an invalid input with mismatching keys fails with the  *)
(* validation error (TypeError/ValueError) without the mismatch notice or  *)
(* a KeyError.                                                             *)
(***************************************************************************)
C17_ValidationThenReconciliation ==
    (fn = "t_test" /\ module # "source") =>
        /\ ~PassesValidation =>
              /\ pc \in {"call", "raised"}
              /\ stat = <<>> /\ key_set = {} /\ set_1 = {} /\ set_2 = {}
              /\ NoMismatchNotice
              /\ pc = "raised" => exc.type \in {"TypeError", "ValueError"}
        /\ (PassesValidation /\ Mismatch /\ ~Truthy(skip)) =>
              /\ pc \in {"call", "checked", "raised"}
              /\ stat = <<>>
              /\ pc = "raised" => exc.type = "KeyError"
        /\ pc \in {"loop", "returned"} => (PassesValidation /\ (~Mismatch \/ Truthy(skip)))

C17_Witness ==
    /\ fn = "t_test" /\ module = "t_test" /\ pc = "raised"
    /\ Mismatch /\ Truthy(skip)
    /\ SampleOk(sample_1) /\ SampleOk(sample_2) /\ ~InOpenUnitInterval(alpha)
    /\ exc.type = "ValueError" /\ stdout = <<>>

(***************************************************************************)
(* Invocations of t_test one after the other in one process.               *)
(***************************************************************************)
\* [1.0, 0.04, 3] and [1, "2", 3]
RepeatValues == { Triple(100, 4, 3), PyList(<<PyInt(1), PyStr(2), PyInt(3)>>) }

InitRepeat ==
    /\ Init
    /\ sample_1 \in DictsOver(1..NumKeys, RepeatValues)
    /\ sample_2 \in DictsOver(1..NumKeys, RepeatValues)
    /\ alpha = PyFloat(Dec(5))
    /\ d = PyInt(0)

\* what the caller of t_test observes: the mapping returned or the kind of
\* the exception raised
Outcome ==
    [kind |-> IF pc = "returned" THEN "returned" ELSE exc.type,
     stat |-> IF pc = "returned" THEN stat ELSE <<>>]

Invocation == [sample_1 |-> sample_1, sample_2 |-> sample_2, outcome |-> Outcome]

\* the samples of the next invocation: those of this one, those of an earlier
\* one, or sample_2 twice
NextSamples ==
    { <<sample_1, sample_2>>, <<sample_2, sample_2>> }
    \cup { <<calls[i].sample_1, calls[i].sample_2>> : i \in 1..Len(calls) }

\* mutant: stat is a module-level dict that outlives the invocation
t_test_again_keeps_stat ==
    /\ fn = "t_test"
    /\ pc \in {"returned", "raised"}
    /\ Len(calls) < MaxCalls - 1
    /\ calls' = Append(calls, Invocation)
    /\ \E s \in NextSamples : sample_1' = s[1] /\ sample_2' = s[2]
    /\ pc' = "call"
    /\ set_1' = {} /\ set_2' = {} /\ key_set' = {}
    /\ exc' = ExcNone
    /\ UNCHANGED <<data, argv, ret, fn, module, alpha, d, skip, stdout, stat>>

\* t_test has returned or raised and is called again: a new frame, nothing
\* of the previous invocation is kept but what was printed
t_test_again ==
    /\ fn = "t_test"
    /\ pc \in {"returned", "raised"}
    /\ Len(calls) < MaxCalls - 1
    /\ calls' = Append(calls, Invocation)
    /\ \E s \in NextSamples : sample_1' = s[1] /\ sample_2' = s[2]
    /\ pc' = "call"
    /\ set_1' = {} /\ set_2' = {} /\ key_set' = {}
    /\ stat' = <<>>
    /\ exc' = ExcNone
    /\ UNCHANGED <<data, argv, ret, fn, module, alpha, d, skip, stdout>>

NextRepeat == Next \/ t_test_again

SpecRepeat == InitRepeat /\ [][NextRepeat]_vars

Done == fn = "t_test" /\ pc \in {"returned", "raised"}

\* the earlier invocations made with the arguments of this one
SameArguments ==
    { i \in 1..Len(calls) : calls[i].sample_1 = sample_1 /\ calls[i].sample_2 = sample_2 }

(***************************************************************************)
(* C15: t_test is deterministic and keeps no hidden state: two invocations *)
(* with identical arguments, in any order and with any other invocations   *)
(* in between, return equal result mappings or fail with the same kind of  *)
(* error, whatever order the keys are processed in.                        *)
(***************************************************************************)
C15_Deterministic ==
    Done => \A i \in SameArguments : calls[i].outcome = Outcome

C15_Witness ==
    /\ Done /\ pc = "returned" /\ Len(calls) = 2
    /\ SameArguments = {1}
    /\ DOMAIN stat = {1} /\ DOMAIN calls[2].outcome.stat = {1, 2}

(***************************************************************************)
(* print_rej_summary(stat, alpha, d, verbose) of t_test.py and             *)
(* twosample_ttest.py, called directly and from run_ttest of the scripts.  *)
(***************************************************************************)
\* "{:.5e}".format(x): x with 6 significant digits, or "nan"
Format5e(x) ==
    IF x.k # "num" THEN [k |-> x.k, v |-> 0]
    ELSE IF Abs(x.v) < SCALE THEN [k |-> "num", v |-> x.v]
    ELSE [k |-> "num", v |-> Sgn(x.v) * ((Abs(x.v) + 5) \div 10) * 10]

\* rejected = [key for key, val in stat.items() if val[4]]
Rejected(st) == { key \in DOMAIN st : st[key][5] }

\* the string print_rej_summary builds: the counts, then when verbose > 1 the
\* rejected cases with their p-values and, in twosample_ttest.py, the
\* relative standard errors of all keys
r_str(m, st, a, dd, verbose) ==
    [text |-> "out of cases reject null hypothesis",
     rejected |-> Cardinality(Rejected(st)),
     total |-> Cardinality(DOMAIN st),
     d |-> dd,
     alpha |-> a,
     detailed |-> verbose > 1,
     cases |-> IF verbose > 1
               THEN [key \in Rejected(st) |-> Format5e(st[key][3])]
               ELSE <<>>,
     rses |-> IF verbose > 1 /\ m = "twosample_ttest"
              THEN [key \in DOMAIN st |-> st[key][6]]
              ELSE <<>>]

\* verbosity levels given on the command line
Verbosities == 0..3

\* entries as t_test computes them for alpha = 0.05
SummaryEntries(m) ==
    { entry(m, v1, v2, PyFloat(Dec(5)), dd).val :
        v1 \in {Triple(100, 4, 3), Triple(120, 5, 1)},
        v2 \in {Triple(100, 4, 3), Triple(120, 5, 1)},
        dd \in TestDs }

SummaryStats(m) ==
    UNION { [K -> SummaryEntries(m)] : K \in SUBSET (1..NumKeys) }

InitSummary ==
    /\ fn \in {"print_rej_summary", "run_ttest"}
    /\ module \in {"t_test", "twosample_ttest"}
    /\ stat \in SummaryStats(module)
    /\ alpha = PyFloat(Dec(5))
    /\ d = PyInt(0)
    /\ argv \in {<<verbose>> : verbose \in Verbosities}
    /\ sample_1 = NoSample
    /\ sample_2 = NoSample
    /\ skip = PyBool(FALSE)
    /\ set_1 = {}
    /\ set_2 = {}
    /\ pc = "call"
    /\ key_set = {}
    /\ exc = ExcNone
    /\ stdout = <<>>
    /\ ret = PyNone
    /\ calls = <<>>
    /\ NoData

\* print_rej_summary: print(r_str), whatever verbose is
call_print_rej_summary ==
    /\ fn = "print_rej_summary"
    /\ pc = "call"
    /\ stdout' = Append(stdout, r_str(module, stat, alpha, d, argv[1]))
    /\ ret' = PyNone
    /\ pc' = "returned"
    /\ UNCHANGED <<data, argv, calls, fn, module, sample_1, sample_2, alpha, d, skip,
                   set_1, set_2, key_set, stat, exc>>

\* run_ttest: if args.verbose: print_rej_summary(stat, alpha, d, args.verbose)
run_ttest_report ==
    /\ fn = "run_ttest"
    /\ pc = "call"
    /\ stdout' = IF argv[1] # 0
                 THEN Append(stdout, r_str(module, stat, alpha, d, argv[1]))
                 ELSE stdout
    /\ ret' = PyNone
    /\ pc' = "returned"
    /\ UNCHANGED <<data, argv, calls, fn, module, sample_1, sample_2, alpha, d, skip,
                   set_1, set_2, key_set, stat, exc>>

NextSummary == call_print_rej_summary \/ run_ttest_report

SpecSummary == InitSummary /\ [][NextSummary]_vars

\* the summary printed says how many entries have reject True, out of how
\* many keys, and lists the rejected keys with their p-values exactly when
\* `listed`
SummaryPrinted(listed) ==
    /\ Len(stdout) = 1
    /\ stdout[1].rejected = Cardinality({ key \in DOMAIN stat : Reject(stat[key]) })
    /\ stdout[1].total = Cardinality(DOMAIN stat)
    /\ stdout[1].detailed = listed
    /\ listed => /\ DOMAIN stdout[1].cases = { key \in DOMAIN stat : Reject(stat[key]) }
                 /\ \A key \in DOMAIN stdout[1].cases :
                        stdout[1].cases[key] = Format5e(PValue(stat[key]))
    /\ ~listed => stdout[1].cases = <<>>

(***************************************************************************)
(* C18: print_rej_summary(stat, alpha, d, verbose) prints nothing at       *)
(* verbosity 0, prints the count of rejections out of the total number of  *)
(* keys at verbosity 1, and at verbosity 2 additionally prints every       *)
(* rejected key with its p-value; the count printed is the number of       *)
(* entries whose reject flag is True and the total is the number of keys.  *)
(***************************************************************************)
C18_SummaryByVerbosity ==
    (fn = "print_rej_summary" /\ pc = "returned") =>
        /\ argv[1] = 0 => stdout = <<>>
        /\ argv[1] = 1 => SummaryPrinted(FALSE)
        /\ argv[1] >= 2 => SummaryPrinted(TRUE)

(***************************************************************************)
(* Calls of two_sample_t(m1, se1, m2, se2, d) of t_test.py and             *)
(* source/t_test.py.                                                       *)
(***************************************************************************)
\* means 1.0, 1.1, 1.2; standard errors 0.0, 0.04, 0.05; d = 0, -0.2, 0.1
TMeans == { PyFloat(Dec(100)), PyFloat(Dec(110)), PyFloat(Dec(120)) }
TErrors == { PyFloat(0), PyFloat(Dec(4)), PyFloat(Dec(5)) }
TDiscrepancies == { PyInt(0), PyFloat(Dec(-20)), PyFloat(Dec(10)) }

\* the variables a call of a function of numbers does not use
NoSamples ==
    /\ sample_1 = NoSample
    /\ sample_2 = NoSample
    /\ alpha = PyFloat(Dec(5))
    /\ skip = PyBool(FALSE)
    /\ set_1 = {}
    /\ set_2 = {}
    /\ key_set = {}
    /\ stat = <<>>
    /\ calls = <<>>
    /\ NoData

InitT ==
    /\ fn = "two_sample_t"
    /\ module \in {"t_test", "source"}
    /\ argv \in TMeans \X TErrors \X TMeans \X TErrors
    /\ d \in TDiscrepancies
    /\ NoSamples
    /\ pc = "call"
    /\ exc = ExcNone
    /\ stdout = <<>>
    /\ ret = PyNone

call_two_sample_t ==
    /\ fn = "two_sample_t"
    /\ pc = "call"
    /\ LET t_stat == two_sample_t(argv[1], argv[2], argv[3], argv[4], d) IN
        IF IsExc(t_stat)
        THEN /\ exc' = Exc(t_stat.k, NoMsg)
             /\ pc' = "raised"
             /\ UNCHANGED ret
        ELSE /\ ret' = t_stat
             /\ pc' = "returned"
             /\ UNCHANGED exc
    /\ UNCHANGED <<data, argv, calls, fn, module, sample_1, sample_2, alpha, d, skip,
                   set_1, set_2, key_set, stat, stdout>>

NextT == call_two_sample_t

SpecT == InitT /\ [][NextT]_vars

\* a decimal number of the inputs, in hundredths
Hundredths(x) == x.v \div (SCALE \div 100)

\* (m1 - m2) - d, in hundredths
TNumerator == Hundredths(argv[1]) - Hundredths(argv[3]) - Hundredths(d)

\* se1^2 + se2^2, in ten-thousandths
TSquares == Hundredths(argv[2]) * Hundredths(argv[2]) + Hundredths(argv[4]) * Hundredths(argv[4])

\* |t| in thousandths squared times the squares brackets the numerator
\* squared: t = num / sqrt(squares) to within 2/1000
NearQuotient(t, num, squares) ==
    LET a == Abs(t.v) \div (SCALE \div 1000)
        n2 == num * num * 1000000
    IN  /\ (a <= 1 \/ (a - 1) * (a - 1) * squares <= n2)
        /\ n2 <= (a + 2) * (a + 2) * squares

(***************************************************************************)
(* C19: two_sample_t(m1, se1, m2, se2, d) returns                          *)
(* ((m1 - m2) - d) / sqrt(se1^2 + se2^2) for every input with              *)
(* se1^2 + se2^2 > 0: its sign is the sign of (m1 - m2) - d, it is 0       *)
(* exactly when m1 - m2 = d, and no sample size enters it.                 *)
(***************************************************************************)
C19_BasicTValue ==
    (fn = "two_sample_t" /\ pc # "call" /\ TSquares > 0) =>
        /\ pc = "returned" /\ ret.k = "num"
        /\ Sgn(ret.v) = Sgn(TNumerator)
        /\ ret.v = 0 <=> Hundredths(argv[1]) - Hundredths(argv[3]) = Hundredths(d)
        /\ NearQuotient(ret, TNumerator, TSquares)

C19_Witness ==
    /\ fn = "two_sample_t" /\ pc = "returned"
    /\ argv = <<PyFloat(Dec(110)), PyFloat(Dec(5)), PyFloat(Dec(120)), PyFloat(Dec(4))>>
    /\ d = PyInt(0)
    /\ ret.v < -1561000 /\ ret.v > -1562000

(***************************************************************************)
(* Calls of calc_twosample_tvalue(m1, sd1, n1, m2, sd2, n2, d) of          *)
(* twosample_ttest.py, next to the calls of its t_test.                    *)
(***************************************************************************)
\* standard deviations 0.0, 0.04, 0.05 and sample sizes 1, 3, 4
PooledDeviations == { PyFloat(0), PyFloat(Dec(4)), PyFloat(Dec(5)) }
PooledSizes == { PyInt(1), PyInt(3), PyInt(4) }
PooledDiscrepancies == { PyInt(0), PyFloat(Dec(-20)) }

InitCalc ==
    /\ fn = "calc_twosample_tvalue"
    /\ module = "twosample_ttest"
    /\ argv \in TMeans \X PooledDeviations \X PooledSizes
                \X TMeans \X PooledDeviations \X PooledSizes
    /\ d \in PooledDiscrepancies
    /\ NoSamples
    /\ pc = "call"
    /\ exc = ExcNone
    /\ stdout = <<>>
    /\ ret = PyNone

InitPooled == InitCalc \/ (Init /\ module = "twosample_ttest")

call_calc_twosample_tvalue ==
    /\ fn = "calc_twosample_tvalue"
    /\ pc = "call"
    /\ LET t_val == calc_twosample_tvalue(argv[1], argv[2], argv[3],
                                          argv[4], argv[5], argv[6], d) IN
        IF IsExc(t_val)
        THEN /\ exc' = Exc(t_val.k, NoMsg)
             /\ pc' = "raised"
             /\ UNCHANGED ret
        ELSE /\ ret' = t_val
             /\ pc' = "returned"
             /\ UNCHANGED exc
    /\ UNCHANGED <<data, argv, calls, fn, module, sample_1, sample_2, alpha, d, skip,
                   set_1, set_2, key_set, stat, stdout>>

NextPooled == call_calc_twosample_tvalue \/ Next

SpecPooled == InitPooled /\ [][NextPooled]_vars

\* a sample size as a number
Size(n) == n.v \div SCALE

\* (n1-1)*sd1^2 + (n2-1)*sd2^2, in ten-thousandths
PooledSquares(sd1, n1, sd2, n2) ==
    (Size(n1) - 1) * Hundredths(sd1) * Hundredths(sd1)
        + (Size(n2) - 1) * Hundredths(sd2) * Hundredths(sd2)

\* the same with sd = sem * sqrt(n), that is sd^2 = n * sem^2
PooledSquaresOfSem(sem1, n1, sem2, n2) ==
    (Size(n1) - 1) * Size(n1) * Hundredths(sem1) * Hundredths(sem1)
        + (Size(n2) - 1) * Size(n2) * Hundredths(sem2) * Hundredths(sem2)

\* t is a multiple of 10^-NDIGITS
IsRounded(t) == t.v % (SCALE \div 10^NDIGITS) = 0

\* t = num / (sp * sqrt(1/n1 + 1/n2)) to within 2/100, where
\* sp^2 = squares / (n1+n2-2): t^2 * squares * (n1+n2) = num^2 * (n1+n2-2) * n1 * n2
NearPooled(t, num, squares, n1, n2) ==
    LET a == Abs(t.v) \div (SCALE \div 100)
        lhs == squares * (Size(n1) + Size(n2))
        rhs == num * num * (Size(n1) + Size(n2) - 2) * Size(n1) * Size(n2) * 10000
    IN  /\ Sgn(t.v) = Sgn(num)
        /\ (a <= 1 \/ (a - 1) * (a - 1) * lhs <= rhs)
        /\ rhs <= (a + 2) * (a + 2) * lhs

\* the entry of a key follows from the samples of the key as in the loop of
\* the extended t_test
EntryFromPooled(key) ==
    LET v1 == Lookup(sample_1, key).e
        v2 == Lookup(sample_2, key).e
        e == stat[key]
        t_val == calc_twosample_tvalue(v1[1], Mul(v1[2], np_sqrt(v1[3])), v1[3],
                                       v2[1], Mul(v2[2], np_sqrt(v2[3])), v2[3], d)
        squares == PooledSquaresOfSem(v1[2], v1[3], v2[2], v2[3])
    IN  /\ TValue(e) = t_val
        /\ PValue(e) = p_value(TValue(e), Df(e))
        /\ Reject(e) = Gt(PyAbs(TValue(e)), CriticalT(e))
        /\ (TValue(e).k = "num" => IsRounded(TValue(e)))
        /\ (Df(e).v > 0 /\ squares > 0) =>
               /\ TValue(e).k = "num"
               /\ NearPooled(TValue(e),
                             Hundredths(v1[1]) - Hundredths(v2[1]) - Hundredths(d),
                             squares, v1[3], v2[3])

(***************************************************************************)
(* C20: calc_twosample_tvalue(m1, sd1, n1, m2, sd2, n2, d) returns the     *)
(* pooled-variance statistic ((m1 - m2) - d) / (sp * sqrt(1/n1 + 1/n2))    *)
(* with sp = sqrt(((n1-1)*sd1^2 + (n2-1)*sd2^2) / (n1+n2-2)), rounded to   *)
(* 5 decimal digits; the t_test of twosample_ttest.py calls it with        *)
(* sd = sem * sqrt(n) and computes p_value and reject from the rounded     *)
(* value.                                                                  *)
(***************************************************************************)
C20_PooledTValue ==
    /\ (fn = "calc_twosample_tvalue" /\ pc # "call"
        /\ Size(argv[3]) + Size(argv[6]) > 2
        /\ PooledSquares(argv[2], argv[3], argv[5], argv[6]) > 0) =>
            /\ pc = "returned" /\ ret.k = "num"
            /\ IsRounded(ret)
            /\ NearPooled(ret, Hundredths(argv[1]) - Hundredths(argv[4]) - Hundredths(d),
                          PooledSquares(argv[2], argv[3], argv[5], argv[6]),
                          argv[3], argv[6])
    /\ (Returned /\ module = "twosample_ttest") =>
            \A key \in DOMAIN stat : EntryFromPooled(key)

\* the test vector (1.1, 0.05, 3, 1.2, 0.04, 4, 0) returns about -2.957, and
\* a t_test has returned an entry with a nonzero rounded t-value
C20_WitnessCall ==
    /\ fn = "calc_twosample_tvalue" /\ pc = "returned"
    /\ argv = <<PyFloat(Dec(110)), PyFloat(Dec(5)), PyInt(3),
                PyFloat(Dec(120)), PyFloat(Dec(4)), PyInt(4)>>
    /\ d = PyInt(0)
    /\ ret.v < -2956000 /\ ret.v > -2959000

C20_Witness ==
    /\ Returned /\ module = "twosample_ttest"
    /\ \E key \in DOMAIN stat :
        /\ Df(stat[key]).v > 0
        /\ TValue(stat[key]).k = "num" /\ TValue(stat[key]).v # 0
        /\ Reject(stat[key])

(***************************************************************************)
(* C21: a malformed sample value is always fatal: in every t_test entry    *)
(* point, a value that is not a 3-element list of numbers makes t_test     *)
(* raise TypeError, even when skip is True and the value sits under a key  *)
(* that the other sample does not have.                                    *)
(***************************************************************************)
C21_MalformedAlwaysFatal ==
    (TTestCalled /\ (HasMalformed(sample_1) \/ HasMalformed(sample_2)))
        => Raised("TypeError")

(***************************************************************************)
(* The t_test of twosample_ttest.py on samples with a mean of 0.0.         *)
(***************************************************************************)
\* [0.0, 0.04, 3] and [1.2, 0.05, 3]
RseValues == { Triple(0, 4, 3), Triple(120, 5, 3) }

InitRse ==
    /\ fn = "t_test"
    /\ module = "twosample_ttest"
    /\ sample_1 \in DictsOver(1..NumKeys, RseValues)
    /\ sample_2 \in DictsOver(1..NumKeys, RseValues)
    /\ alpha \in TestAlphas
    /\ d \in TestDs
    /\ skip \in {PyBool(TRUE), PyBool(FALSE)}
    /\ set_1 = {}
    /\ set_2 = {}
    /\ pc = "call"
    /\ key_set = {}
    /\ stat = <<>>
    /\ exc = ExcNone
    /\ stdout = <<>>
    /\ argv = <<>>
    /\ ret = PyNone
    /\ calls = <<>>
    /\ NoData

SpecRse == InitRse /\ [][Next]_vars

\* the body of the loop of the extended t_test with the two calc_rse lines
\* and the last component of the entry left out
entry_without_rse(v1, v2, a, dd) ==
    LET m1 == v1.e[1]  sem1 == v1.e[2]  n1 == v1.e[3]
        m2 == v2.e[1]  sem2 == v2.e[2]  n2 == v2.e[3]
        sd1 == Mul(sem1, np_sqrt(n1))
        sd2 == Mul(sem2, np_sqrt(n2))
        t_val == calc_twosample_tvalue(m1, sd1, n1, m2, sd2, n2, dd)
        df == Sub(Add(n1, n2), Two)
        t_crit == Round(critical_t(a, df), NDIGITS)
        raised == FirstExc(<<sd1, sd2, t_val, df, t_crit>>)
    IN  IF raised # "none" THEN [exc |-> raised, val |-> <<>>]
        ELSE [exc |-> "none",
              val |-> <<t_val, df, p_value(t_val, df), t_crit,
                        reject_extended(t_val, t_crit)>>]

WithoutRse(key) ==
    entry_without_rse(Lookup(sample_1, key), Lookup(sample_2, key), alpha, d)

\* the loop of t_test has raised
RaisedInLoop == fn = "t_test" /\ pc = "raised" /\ exc.type \notin {"TypeError", "ValueError", "KeyError"}

(***************************************************************************)
(* C22: in the extended variant the relative standard errors are           *)
(* diagnostic only: for inputs that pass validation, computing rse1 and    *)
(* rse2 changes neither the values (t_value, df, p_value, critical_t,      *)
(* reject) of any key nor whether t_test returns a result for the          *)
(* reconciled keys.                                                        *)
(***************************************************************************)
C22_RseDiagnosticOnly ==
    (fn = "t_test" /\ module = "twosample_ttest" /\ PassesValidation) =>
        /\ \A key \in DOMAIN stat :
               /\ WithoutRse(key).exc = "none"
               /\ SubSeq(stat[key], 1, 5) = WithoutRse(key).val
        /\ RaisedInLoop =>
               \E key \in key_set \ DOMAIN stat : WithoutRse(key).exc = exc.type

(***************************************************************************)
(* t_test of t_test.py and twosample_ttest.py called a second time after   *)
(* one key of one sample was added, removed or given another triple.       *)
(***************************************************************************)
\* [1.0, 0.04, 3] and [1.2, 0.05, 1]
OtherValues == { Triple(100, 4, 3), Triple(120, 5, 1) }

InitOther ==
    /\ fn = "t_test"
    /\ module \in {"t_test", "twosample_ttest"}
    /\ sample_1 \in DictsOver(1..NumKeys, OtherValues)
    /\ sample_2 \in DictsOver(1..NumKeys, OtherValues)
    /\ alpha = PyFloat(Dec(5))
    /\ d = PyInt(0)
    /\ skip \in {PyBool(TRUE), PyBool(FALSE)}
    /\ set_1 = {}
    /\ set_2 = {}
    /\ pc = "call"
    /\ key_set = {}
    /\ stat = <<>>
    /\ exc = ExcNone
    /\ stdout = <<>>
    /\ argv = <<>>
    /\ ret = PyNone
    /\ calls = <<>>
    /\ NoData

\* sample[key] = val and del sample[key], as a dict in ascending key order
SetItem(sample, key, val) ==
    LET K == KeysOf(sample) \cup {key} IN
    PyDict(ItemsOf([k \in K |-> IF k = key THEN val ELSE Lookup(sample, k)], K))

DelItem(sample, key) ==
    LET K == KeysOf(sample) \ {key} IN
    PyDict(ItemsOf([k \in K |-> Lookup(sample, k)], K))

\* the samples that differ from the sample in one key
OneKeyEdits(sample) ==
    UNION { {DelItem(sample, key)} \cup { SetItem(sample, key, val) : val \in OtherValues }
            : key \in 1..NumKeys }

\* the first call has returned; t_test is called once more with one key of
\* one sample edited
t_test_other_keys ==
    /\ fn = "t_test"
    /\ pc = "returned"
    /\ calls = <<>>
    /\ calls' = <<Invocation>>
    /\ \/ sample_1' \in OneKeyEdits(sample_1) /\ UNCHANGED sample_2
       \/ sample_2' \in OneKeyEdits(sample_2) /\ UNCHANGED sample_1
    /\ pc' = "call"
    /\ set_1' = {} /\ set_2' = {} /\ key_set' = {}
    /\ stat' = <<>>
    /\ exc' = ExcNone
    /\ UNCHANGED <<data, argv, ret, fn, module, alpha, d, skip, stdout>>

NextOther == Next \/ t_test_other_keys

SpecOther == InitOther /\ [][NextOther]_vars

\* the key has the same two triples in the earlier invocation and in this one
SameTriples(i, key) ==
    /\ Lookup(calls[i].sample_1, key) = Lookup(sample_1, key)
    /\ Lookup(calls[i].sample_2, key) = Lookup(sample_2, key)

(***************************************************************************)
(* C23: the result entry of a key depends only on that key's two triples   *)
(* and on alpha and d: the entry is the one computed from them alone, in   *)
(* whatever order the reconciled keys are processed, and a successful call *)
(* made after adding, removing or changing another key returns the same    *)
(* entry for the key.                                                      *)
(***************************************************************************)
C23_EntryDependsOnOwnTriples ==
    Returned =>
        /\ \A key \in DOMAIN stat :
               stat[key] = entry(module, Lookup(sample_1, key), Lookup(sample_2, key),
                                 alpha, d).val
        /\ \A i \in 1..Len(calls) :
               calls[i].outcome.kind = "returned" =>
                   \A key \in DOMAIN stat \cap DOMAIN calls[i].outcome.stat :
                       SameTriples(i, key) => stat[key] = calls[i].outcome.stat[key]

\* both calls returned, key 1 kept its triples and its entry while key 2
\* was given another triple and another entry
C23_Witness ==
    /\ Returned /\ Len(calls) = 1 /\ calls[1].outcome.kind = "returned"
    /\ {1, 2} \subseteq DOMAIN stat \cap DOMAIN calls[1].outcome.stat
    /\ SameTriples(1, 1) /\ ~SameTriples(1, 2)
    /\ stat[2] # calls[1].outcome.stat[2]
    /\ stat[1] # stat[2]

(***************************************************************************)
(* The violations of a call of check_input_args, ranked in the order the   *)
(* claim gives: sample_1 (its container, then its values one by one in     *)
(* the order of the dict), sample_2 likewise, the type of alpha, the range *)
(* of alpha, d, skip.                                                      *)
(***************************************************************************)
\* the rank of the container of sample sn; its i-th value has rank + i
SampleRank(sn) == IF sn = "sample_1" THEN 0 ELSE 100

\* the ranks of the checks that follow the samples
ArgRank(check) ==
    IF check = "alpha type" THEN 200
    ELSE IF check = "alpha range" THEN 201
    ELSE IF check = "d" THEN 202
    ELSE 203

AlphaTypeRank == ArgRank("alpha type")
AlphaRangeRank == ArgRank("alpha range")
DRank == ArgRank("d")
SkipRank == ArgRank("skip")

SampleViolations(sn) ==
    LET sample == SampleNamed(sn) IN
    IF ~IsDict(sample) THEN {SampleRank(sn)}
    ELSE { SampleRank(sn) + i : i \in { j \in 1..Len(sample.items) : Malformed(sample.items[j][2]) } }

Violations ==
    SampleViolations("sample_1") \cup SampleViolations("sample_2")
    \cup (IF ~IsFloat(alpha) THEN {AlphaTypeRank} ELSE {})
    \cup (IF ~InOpenUnitInterval(alpha) THEN {AlphaRangeRank} ELSE {})
    \cup (IF ~IsFloatOrInt(d) THEN {DRank} ELSE {})
    \cup (IF skip.t # "bool" THEN {SkipRank} ELSE {})

FirstViolation == CHOOSE r \in Violations : \A q \in Violations : r <= q

\* the error of a malformed value: its shape before its element types
ValueError3(sn, item) ==
    IF BadShape(item[2]) THEN TypeError("must be a list with 3 elements", sn, item[1])
    ELSE TypeError("must be a list of floats or ints", sn, item[1])

SampleError(sn, r) ==
    IF r = SampleRank(sn) THEN TypeError("must be a dictionary", sn, 0)
    ELSE ValueError3(sn, SampleNamed(sn).items[r - SampleRank(sn)])

ErrorOf(r) ==
    IF r < SampleRank("sample_2") THEN SampleError("sample_1", r)
    ELSE IF r < AlphaTypeRank THEN SampleError("sample_2", r)
    ELSE IF r = AlphaTypeRank THEN TypeError("alpha must be a float", "", 0)
    ELSE IF r = AlphaRangeRank
    THEN Exc("ValueError", Msg("alpha must be in (0, 1) range", "", 0, <<>>, FALSE, 0))
    ELSE IF r = DRank THEN TypeError("d must be a float or an int", "", 0)
    ELSE TypeError("skip must be a boolean", "", 0)

(***************************************************************************)
(* C24: when several arguments of check_input_args are invalid at once,    *)
(* the error raised is that of the first violation in a fixed order: all   *)
(* of sample_1 (container, then each value's shape, then its element       *)
(* types) before sample_2, the samples before alpha, alpha's type          *)
(* (TypeError) before alpha's range (ValueError), alpha before d, and d    *)
(* before skip.                                                            *)
(***************************************************************************)
C24_FirstViolationRaised ==
    ArgsCalled =>
        IF Violations = {} THEN pc = "returned"
        ELSE pc = "raised" /\ exc = ErrorOf(FirstViolation)

\* the second value of sample_2 is the first of five violations
C24_Witness ==
    /\ ArgsCalled
    /\ Cardinality(Violations) >= 5
    /\ FirstViolation = SampleRank("sample_2") + 2
    /\ {AlphaTypeRank, DRank, SkipRank} \subseteq Violations
    /\ exc.msg.sn = "sample_2" /\ exc.msg.key = 2

(***************************************************************************)
(* check_data_matching called directly and from t_test.                    *)
(***************************************************************************)
InitNotice == InitMatch \/ Init

NextNotice == NextMatch \/ Next

SpecNotice == InitNotice /\ [][NextNotice]_vars

\* the mismatch notices printed so far
Notices == { i \in 1..Len(stdout) : stdout[i].text = "Data set mismatching." }

\* check_data_matching has been called and is over: in t_test the loop was
\* reached, or the call raised otherwise than in check_input_args
MatchingDone ==
    \/ MatchCalled
    \/ /\ fn = "t_test"
       /\ \/ pc \in {"loop", "returned"}
          \/ pc = "raised" /\ (module = "source" \/ exc.type \notin {"TypeError", "ValueError"})

\* the message of the KeyError the call raises with skip False, followed by
\* the line "Mismatching keys will be skipped."
KeyErrorTextThenSkipLine ==
    [check_data_matching(module, set_1, set_2, PyBool(FALSE)).exc.msg
        EXCEPT !.skipped = TRUE]

C25_NoticeState ==
    /\ MatchingDone =>
        /\ Cardinality(Notices) = IF set_1 # set_2 /\ skip = PyBool(TRUE) THEN 1 ELSE 0
        /\ \A i \in Notices : stdout[i] = KeyErrorTextThenSkipLine
        /\ RaisedKeyError => Notices = {}
    /\ ~MatchingDone => Notices = {}

(***************************************************************************)
(* C25: check_data_matching emits the mismatch notice exactly once per     *)
(* call when set_1 # set_2 and skip is True, and never otherwise (nothing  *)
(* is printed for equal sets or on the KeyError path); the notice carries  *)
(* the same text as the KeyError message followed by the 'Mismatching keys *)
(* will be skipped.' line, and within t_test it is emitted before any      *)
(* per-key result is computed.                                             *)
(***************************************************************************)
C25_NoticeOncePerMismatch ==
    /\ []C25_NoticeState
    /\ [][Notices' # Notices => (stat = <<>> /\ stat' = <<>>)]_vars
    /\ [][stat' # stat => Notices' = Notices]_vars

\* t_test has returned entries after one notice, printed after the banner
C25_Witness ==
    /\ Returned /\ module = "twosample_ttest"
    /\ stat # <<>>
    /\ Notices = {2}
    /\ HasLabel(stdout[2], "sample_1 missing")

(***************************************************************************)
(* load_data(filename) and process_data(rdata, default_n) of               *)
(* scripts/run_twosample_ttest.py and t_test/example/ex_data_process.py.   *)
(* A file is a sequence of lines, a line the sequence of the tokens        *)
(* line.split() gives.  A list object has an identity, its index in heap:  *)
(* a dict of the two functions holds identities, so that two dicts can     *)
(* hold the same object.                                                   *)
(***************************************************************************)
DEFAULT_n == 30

\* the default of the parameter default_n of process_data
process_data_default_n == 1000

\* 5.000E-07 is below the unit of v: kind "e-7", v in units of 10^-7
EnergyGroup == Scalar("float", "e-7", 5)

\* float(token): the number the text denotes, ValueError for other text
float(token) ==
    IF token \in {"5.000E-07", "5e-07"} THEN EnergyGroup
    ELSE IF token = "1.000E-01" THEN PyFloat(Dec(10))
    ELSE IF token = "0.00000E+00" THEN PyFloat(0)
    ELSE IF token = "0.1" THEN PyFloat(Dec(10))
    ELSE IF token = "0.5" THEN PyFloat(Dec(50))
    ELSE IF token = "1.0" THEN PyFloat(Dec(100))
    ELSE IF token = "2.0" THEN PyFloat(Dec(200))
    ELSE IF token = "3.0" THEN PyFloat(Dec(300))
    ELSE IF token = "10.0" THEN PyFloat(Dec(1000))
    ELSE IF token = "22.5" THEN PyFloat(Dec(2250))
    ELSE Raise("ValueError")

\* x == y and x != y for floats and strs
Eq(x, y) == x.t = y.t /\ x.k = y.k /\ x.v = y.v /\ x.k # "nan"

Ne(x, y) == ~Eq(x, y)

\* mutant: a key that is already in the dict keeps its first value
SetKeyKeepsFirst(dict, key, ident) ==
    IF \E i \in 1..Len(dict) : dict[i][1] = key
    THEN dict
    ELSE Append(dict, <<key, ident>>)

\* data[key] = the object ident: a dict keeps the place of a key it has
SetKey(dict, key, ident) ==
    IF \E i \in 1..Len(dict) : dict[i][1] = key
    THEN [i \in 1..Len(dict) |-> IF dict[i][1] = key THEN <<key, ident>> ELSE dict[i]]
    ELSE Append(dict, <<key, ident>>)

\* the body of `for line in lines` of load_data on the state
\* [exc, heap, data] of the loop
load_line(st, line) ==
    IF Len(line) # 6 THEN st
    ELSE
    LET floats == [i \in 1..6 |-> float(line[i])]
        e == IF IsExc(floats[1]) THEN Scalar("str", line[1], 0) ELSE floats[1]
        x == floats[2]  y == floats[3]  z == floats[4]
        res == floats[5]  rel == floats[6]
    IN  IF \E i \in 2..6 : IsExc(floats[i])
        THEN [st EXCEPT !.exc = Exc("ValueError", NoMsg)]
        ELSE IF Eq(e, EnergyGroup) /\ Eq(z, PyFloat(Dec(2250)))
                /\ Ne(res, PyFloat(0)) /\ Ne(rel, PyFloat(0))
        THEN [st EXCEPT !.heap = Append(st.heap, PyList(<<res, Mul(rel, res)>>)),
                        !.data = SetKey(st.data, PyTuple(<<x, y, z>>), Len(st.heap) + 1)]
        ELSE st

RECURSIVE load_lines(_, _, _)
load_lines(st, file, i) ==
    IF i > Len(file) \/ st.exc # ExcNone THEN st
    ELSE load_lines(load_line(st, file[i]), file, i + 1)

load_data(file) == load_lines([exc |-> ExcNone, heap |-> <<>>, data |-> <<>>], file, 1)

\* the identities a dict holds
Idents(dict) == { dict[i][2] : i \in 1..Len(dict) }

\* mutant: every value is copied, pdata[key] = val + [default_n]
process_data_copies(hp, rd, default_n) ==
    [heap |-> hp \o [i \in 1..Len(rd) |-> PyList(Append(hp[rd[i][2]].e, default_n))],
     pdata |-> [i \in 1..Len(rd) |-> <<rd[i][1], Len(hp) + i>>]]

\* for key, val in rdata.items(): val.append(default_n); pdata[key] = val
process_data(hp, rd, default_n) ==
    [heap |-> [i \in 1..Len(hp) |->
                  IF i \in Idents(rd) THEN PyList(Append(hp[i].e, default_n)) ELSE hp[i]],
     pdata |-> rd]

\* the dict as a value: each identity replaced by the object it names
ValueOf(hp, dict) == PyDict([i \in 1..Len(dict) |-> <<dict[i][1], hp[dict[i][2]]>>])

(***************************************************************************)
(* The files: up to MaxLines lines among an accepted line, a second one    *)
(* with the same (x, y, z), one with another x, lines that are skipped     *)
(* (res or rel 0, another z, another energy, a word for the energy, a line *)
(* of 5 tokens) and a line whose second token is not a number.             *)
(***************************************************************************)
FileLines ==
    { <<"5.000E-07", "1.0", "2.0", "22.5", "2.0", "0.5">>,
      <<"5e-07", "1.0", "2.0", "22.5", "0.5", "0.1">>,
      <<"5.000E-07", "3.0", "2.0", "22.5", "2.0", "0.1">>,
      <<"5.000E-07", "1.0", "2.0", "22.5", "0.00000E+00", "0.5">>,
      <<"5.000E-07", "1.0", "2.0", "22.5", "2.0", "0.00000E+00">>,
      <<"5.000E-07", "1.0", "2.0", "10.0", "2.0", "0.5">>,
      <<"1.000E-01", "1.0", "2.0", "22.5", "2.0", "0.5">>,
      <<"total", "1.0", "2.0", "22.5", "2.0", "0.5">>,
      <<"Energy", "X", "Y", "Z", "Result">>,
      <<"total", "X", "2.0", "22.5", "2.0", "0.5">> }

Files == UNION { [1..n -> FileLines] : n \in 0..MaxLines }

InitData ==
    /\ fn = "load_data"
    /\ module = "twosample_ttest"
    /\ lines \in Files
    /\ heap = <<>>
    /\ rdata = <<>>
    /\ pdata = <<>>
    /\ sample_1 = NoSample
    /\ sample_2 = NoSample
    /\ alpha = PyFloat(Dec(5))
    /\ d = PyInt(0)
    /\ skip = PyBool(FALSE)
    /\ set_1 = {}
    /\ set_2 = {}
    /\ pc = "call"
    /\ key_set = {}
    /\ stat = <<>>
    /\ exc = ExcNone
    /\ stdout = <<>>
    /\ argv = <<>>
    /\ ret = PyNone
    /\ calls = <<>>

\* data = load_data(file)
call_load_data ==
    /\ fn = "load_data"
    /\ pc = "call"
    /\ LET r == load_data(lines) IN
        /\ exc' = r.exc
        /\ pc' = IF r.exc = ExcNone THEN "returned" ELSE "raised"
        /\ heap' = r.heap
        /\ rdata' = IF r.exc = ExcNone THEN r.data ELSE <<>>
    /\ stdout' = Append(stdout, Msg("- Loading data from", "", 0, <<>>, FALSE, 0))
    /\ UNCHANGED <<lines, pdata, argv, ret, calls, fn, module, sample_1, sample_2, alpha, d,
                   skip, set_1, set_2, key_set, stat>>

\* process_data(data) or process_data(data, default_n) on the dict that
\* load_data returned
call_process_data ==
    /\ fn \in {"load_data", "process_data"}
    /\ pc = "returned"
    /\ Len(calls) < MaxCalls - 1
    /\ \E given \in {<<>>, <<PyInt(DEFAULT_n)>>} :
        LET default_n == IF given = <<>> THEN PyInt(process_data_default_n) ELSE given[1]
            r == process_data(heap, rdata, default_n)
        IN  /\ argv' = given
            /\ heap' = r.heap
            /\ pdata' = r.pdata
            /\ calls' = Append(calls, [fn |-> "process_data", argv |-> given])
    /\ fn' = "process_data"
    /\ stdout' = Append(stdout, Msg("- Processing loaded data.", "", 0, <<>>, FALSE, 0))
    /\ UNCHANGED <<lines, rdata, ret, module, sample_1, sample_2, alpha, d, skip, set_1,
                   set_2, pc, key_set, stat, exc>>

\* the first statement of tt.t_test(sample_1, sample_2, alpha, d, skip) on
\* the processed data: check_input_args
call_check_loaded ==
    /\ fn = "process_data"
    /\ pc = "returned"
    /\ sample_1' = ValueOf(heap, pdata)
    /\ sample_2' = ValueOf(heap, pdata)
    /\ exc' = check_input_args(sample_1', sample_2', alpha, d, skip)
    /\ pc' = IF exc' = ExcNone THEN "returned" ELSE "raised"
    /\ fn' = "check_input_args"
    /\ UNCHANGED <<data, argv, ret, calls, module, alpha, d, skip, set_1, set_2, key_set,
                   stat, stdout>>

NextData == call_load_data \/ call_process_data \/ call_check_loaded

SpecData == InitData /\ [][NextData]_vars

\* the value of the i-th key of the dict
ValueAt(dict, i) == heap[dict[i][2]].e

\* process_data was called n times on the loaded data and nothing else since
Processed(n) == fn = "process_data" /\ Len(calls) = n

(***************************************************************************)
(* C26: process_data of the run_twosample_ttest script assigns the         *)
(* documented default sample size of 30 to every key when the caller does  *)
(* not specify default_n.                                                  *)
(***************************************************************************)
C26_DefaultSampleSize ==
    (fn = "process_data" /\ argv = <<>>) =>
        \A i \in 1..Len(pdata) :
            ValueAt(pdata, i)[Len(ValueAt(pdata, i))] = PyInt(DEFAULT_n)

\* pdata holds the objects of rdata, in place
SameObjects == pdata = rdata

C28_InPlace ==
    /\ \A n \in 1..MaxCalls :
        Processed(n) =>
            /\ SameObjects
            /\ \A i \in 1..Len(rdata) : Len(ValueAt(rdata, i)) = 2 + n
    /\ Processed(1) => \A i \in 1..Len(rdata) : Len(ValueAt(rdata, i)) = 3

(***************************************************************************)
(* C28 as stated: process_data appends the sample size to the value lists  *)
(* of rdata in place and returns a mapping whose values are those same     *)
(* list objects: after one call every rdata value has 3 elements, and      *)
(* after any further call the values have more than 3 elements, so the     *)
(* resulting sample is rejected by check_input_args with TypeError.        *)
(***************************************************************************)
C28_Original ==
    /\ C28_InPlace
    /\ (fn = "check_input_args" /\ Len(calls) >= 2) => Raised("TypeError")

(***************************************************************************)
(* C28: process_data appends the sample size to the value lists of rdata   *)
(* in place and returns a mapping whose values are those same list         *)
(* objects: after one call every rdata value has 3 elements, and after any *)
(* further call the values have more than 3 elements, so the resulting     *)
(* sample is rejected by check_input_args with TypeError when rdata has a  *)
(* key; an empty rdata gives an empty sample, which is accepted.           *)
(***************************************************************************)
C28_AppendsInPlace ==
    /\ C28_InPlace
    /\ (fn = "check_input_args" /\ Len(calls) >= 2) =>
           IF rdata = <<>> THEN pc = "returned" ELSE Raised("TypeError")

C28_Witness ==
    /\ fn = "check_input_args" /\ Len(calls) = 2
    /\ Len(rdata) = 2
    /\ Len(ValueAt(rdata, 1)) = 4
    /\ Raised("TypeError")
    /\ exc.msg.text = "must be a list with 3 elements"

\* the line is one load_data stores: 6 tokens, the energy group 5.000E-07,
\* z = 22.5, numbers elsewhere, res and rel other than 0
Numeric(token) == ~IsExc(float(token))

Accepted(line) ==
    /\ Len(line) = 6
    /\ \A i \in 1..6 : Numeric(line[i])
    /\ float(line[1]) = EnergyGroup
    /\ line[4] = "22.5"
    /\ float(line[5]).v # 0
    /\ float(line[6]).v # 0

KeyOfLine(line) == PyTuple(<<float(line[2]), float(line[3]), float(line[4])>>)

\* the last accepted line of the file with this key
LastLine(key) ==
    lines[CHOOSE j \in 1..Len(lines) :
            /\ Accepted(lines[j]) /\ KeyOfLine(lines[j]) = key
            /\ \A k \in (j + 1)..Len(lines) :
                   ~(Accepted(lines[k]) /\ KeyOfLine(lines[k]) = key)]

\* a list [mean, standard error, size] of numbers, neither mean nor error 0
WellFormedTriple(val) ==
    /\ Len(val) = 3
    /\ \A j \in 1..3 : IsFloatOrInt(val[j]) /\ val[j].k = "num"
    /\ val[1].v # 0
    /\ val[2].v # 0
    /\ ~IsExc(calc_rse(val[1], val[2]))

\* the t-value of two triples has a divisor other than 0: se1^2 + se2^2 is
\* positive, and so is the pooled variance for sizes above 1
QuotientDefined(v, w) ==
    /\ two_sample_t(v[1], v[2], w[1], w[2], d).k = "num"
    /\ Add(Pow2(v[2]), Pow2(w[2])).v > 0
    /\ Size(v[3]) > 1 /\ Size(w[3]) > 1

(***************************************************************************)
(* C29: every sample built by load_data followed by exactly one            *)
(* process_data passes the structural checks of check_input_args (each     *)
(* value is a list [mean, standard error, size] of 3 numbers under a       *)
(* 3-tuple key) and has a non-zero mean and a non-zero standard error for  *)
(* every key, so that neither calc_rse nor the t-value computation        *)
(* divides by zero on loaded data; when a file has several accepted lines  *)
(* with the same (x, y, z), the last one is the one kept.                  *)
(***************************************************************************)
C29_LoadedSampleWellFormed ==
    /\ Processed(1) =>
        /\ { pdata[i][1] : i \in 1..Len(pdata) }
               = { KeyOfLine(lines[j]) : j \in { k \in 1..Len(lines) : Accepted(lines[k]) } }
        /\ \A i \in 1..Len(pdata) :
            LET key == pdata[i][1]
                val == ValueAt(pdata, i)
                line == LastLine(key)
            IN  /\ key.t = "tuple" /\ Len(key.e) = 3
                /\ WellFormedTriple(val)
                /\ val[1] = float(line[5])
                /\ val[2] = Mul(float(line[6]), float(line[5]))
        /\ \A i, j \in 1..Len(pdata) : QuotientDefined(ValueAt(pdata, i), ValueAt(pdata, j))
    /\ (fn = "check_input_args" /\ Len(calls) = 1) => pc = "returned"

\* two accepted lines with the same (x, y, z): the second is kept
C29_Witness ==
    /\ fn = "check_input_args" /\ Len(calls) = 1 /\ pc = "returned"
    /\ lines = << <<"5.000E-07", "1.0", "2.0", "22.5", "2.0", "0.5">>,
                  <<"5e-07", "1.0", "2.0", "22.5", "0.5", "0.1">> >>
    /\ Len(pdata) = 1
    /\ ValueAt(pdata, 1)[1] = PyFloat(Dec(50))
    /\ ValueAt(pdata, 1)[2] = PyFloat(Dec(5))

\* a message without its leading indentation
Unindented(msg) == [msg EXCEPT !.indent = 0]

\* what a caller observes of a call of check_data_matching: whether it
\* raised, the set returned, the messages raised and printed, unindented
Observed(r) ==
    [raised |-> r.exc.type,
     ret |-> r.ret,
     msg |-> Unindented(r.exc.msg),
     out |-> [i \in 1..Len(r.out) |-> Unindented(r.out[i])]]

\* the call of this state, as a result of check_data_matching
ThisCall == [exc |-> exc, ret |-> key_set, out |-> stdout]

(***************************************************************************)
(* C27: the three copies of check_data_matching (t_test.py,                *)
(* twosample_ttest.py, source/t_test.py) are observationally equivalent:   *)
(* for every (set_1, set_2, skip) they return the same set or raise        *)
(* KeyError in the same cases and print a notice in the same cases, the    *)
(* messages differing only in leading indentation; the returned set is     *)
(* also the same when set_1 and set_2 are swapped.                         *)
(***************************************************************************)
C27_CopiesEquivalent ==
    MatchCalled =>
        /\ \A m \in Modules :
               Observed(check_data_matching(m, set_1, set_2, skip)) = Observed(ThisCall)
        /\ exc.type \in {"none", "KeyError"}
        /\ LET swapped == check_data_matching(module, set_2, set_1, skip) IN
           /\ swapped.exc.type = exc.type
           /\ swapped.ret = key_set
           /\ Len(swapped.out) = Len(stdout)

\* the extended copy has printed an indented notice that the other copies
\* print unindented
C27_Witness ==
    /\ MatchCalled /\ module = "twosample_ttest" /\ pc = "returned"
    /\ set_1 = {1, 2} /\ set_2 = {2, 3} /\ key_set = {2}
    /\ Len(stdout) = 1 /\ stdout[1].indent = 2
    /\ check_data_matching("source", set_1, set_2, skip).out[1].indent = 0

\* the entry of a key with degrees of freedom <= 0 in the basic t_test:
\* critical value and p-value undefined, abs(t_val) <= t_crit false, reject
UndefinedEntry(e) ==
    /\ CriticalT(e).k = "nan"
    /\ PValue(e).k = "nan"
    /\ ~Le(PyAbs(TValue(e)), CriticalT(e))
    /\ Reject(e) = TRUE

\* the entry of a key with positive degrees of freedom
NormalEntry(e) ==
    /\ TValue(e).k = "num"
    /\ CriticalT(e).k = "num" /\ CriticalT(e).v > 0
    /\ InUnitInterval(PValue(e))
    /\ Reject(e) = Gt(PyAbs(TValue(e)), CriticalT(e))

(***************************************************************************)
(* C30: for a key whose degrees of freedom n1 + n2 - 2 are <= 0 (for       *)
(* example both sizes equal to 1), the basic t_test raises no error: the   *)
(* critical value and the p-value are undefined (not a number), the test   *)
(* abs(t_val) <= t_crit is false, and the entry is returned with           *)
(* reject = True, while the other keys of the same call get their normal   *)
(* entries.                                                                *)
(***************************************************************************)
C30_NonPositiveDfRejects ==
    (fn = "t_test" /\ module # "twosample_ttest" /\ PassesValidation) =>
        /\ ~RaisedInLoop
        /\ Returned => DOMAIN stat = KeysOf(sample_1) \cap KeysOf(sample_2)
        /\ \A key \in DOMAIN stat :
               /\ Df(stat[key]) = Sub(Add(Lookup(sample_1, key).e[3],
                                          Lookup(sample_2, key).e[3]), Two)
               /\ IF Df(stat[key]).v <= 0 THEN UndefinedEntry(stat[key])
                  ELSE NormalEntry(stat[key])

\* key 1 has two samples of size 1 and is rejected with undefined values,
\* key 2 has its normal entry and is not rejected
C30_Witness ==
    /\ Returned /\ module = "t_test" /\ PassesValidation
    /\ DOMAIN stat = {1, 2}
    /\ Lookup(sample_1, 1).e[3] = PyInt(1) /\ Lookup(sample_2, 1).e[3] = PyInt(1)
    /\ Df(stat[1]).v = 0 /\ UndefinedEntry(stat[1])
    /\ Df(stat[2]).v > 0 /\ NormalEntry(stat[2]) /\ ~Reject(stat[2])

====
